---------------------------- MODULE Spec2Model ----------------------------
(***************************************************************************)
(* A model of the ring settlement simulator of protocol2-js:               *)
(*   - BalanceBook and ProtocolSimulator (src/unnamed/part_000),           *)
(*   - Ring (src/src/ring.ts).                                             *)
(* One simulateAndReport call is a run of the state machine: the orders'   *)
(* pre-flight, one step per ring for the fill computation, one step per    *)
(* iteration of the all-or-none loop, one step per ring for the payments,  *)
(* the report and its validation.                                          *)
(***************************************************************************)
EXTENDS Integers, Sequences, FiniteSets, TLC

VARIABLES
    orders,            \* ringsInfo.orders: the OrderInfo records, with valid and filledAmountS
    ringsInfo,         \* ringsInfo.rings: for each ring the indexes of its orders
    chain,             \* the chain snapshot read through the context
    spendables,        \* the Spendable records the orders point to
    rings,             \* the Ring objects
    pc,                \* where simulateAndReport stands
    pos,               \* the ring the current loop of simulateAndReport is at
    iterations,        \* how often the body of the while loop of checkRings ran
    transferItems,     \* simulateAndReport's merged transferItems
    feeBalances,       \* simulateAndReport's feeBalances book
    ringMinedEvents,   \* simulateAndReport's ringMinedEvents
    invalidRingEvents, \* simulateAndReport's invalidRingEvents
    ringIndex,         \* context.ringIndex
    report,            \* the SimulatorReport of collectReport
    failed,            \* the message of the assertion that threw, "" when none did
    calls,             \* how many calls of simulateAndReport were made on the context
    firstReport,       \* the SimulatorReport the first call returned
    objects,           \* the objects of the BalanceBooks of a client of the class
    clientBook,        \* a BalanceBook of the client: the place of its balances object
    clientCopy,        \* the copy() the client took of it, 0 before
    addBalanceCalls    \* how many addBalance calls the client made

\* the variables of a client of BalanceBook
bookVars == <<objects, clientBook, clientCopy, addBalanceCalls>>

vars == <<orders, ringsInfo, chain, spendables, rings, pc, pos, iterations,
          transferItems, feeBalances, ringMinedEvents, invalidRingEvents,
          ringIndex, report, failed, calls, firstReport, bookVars>>

---------------------------------------------------------------------------
(* Bounds of the model *)

\* the largest amountS, amountB of an order and the largest balance of an owner
MaxAmount == 3

\* the largest feeAmount of an order
MaxFee == 2

\* the most addBalance calls of a client of BalanceBook
MaxAddBalanceCalls == 4

---------------------------------------------------------------------------
(* Program constants *)

\* context.feePercentageBase
feePercentageBase == 1000

\* the divisor of the wallet split (ring.ts: dividedToIntegerBy(100))
walletSplitBase == 100

\* the shift of the P2P burn rate (burnRateToken >> 16) as a divisor
burnRateShift == 65536

\* Ring.zeroAddress, BalanceBook.zeroAddress
zeroAddress == "0x0"

\* context.feeHolder.address
feeHolder == "feeHolder"

\* an absent address (walletAddr is optional)
NoAddress == ""

ERC20 == "ERC20"
ERC1400 == "ERC1400"

\* cancelledValue of batchGetFilledAndCheckCancelled (2^256 - 1): a value
\* above every amount of the model
cancelledValue == 1000000

---------------------------------------------------------------------------
(* BigNumber arithmetic *)

\* the first of two amounts, whatever the second
firstOf(a, b) == a

\* the second of two amounts, whatever the first
secondOf(a, b) == b

\* BigNumber.min
Min(a, b) == IF a <= b THEN a ELSE b

\* BigNumber.dividedToIntegerBy: the quotient truncated toward zero
dividedToIntegerBy(a, b) ==
    IF a >= 0 THEN a \div b ELSE -((-a) \div b)

---------------------------------------------------------------------------
(* BalanceBook: balances[owner][token][tranche], a JavaScript object of    *)
(* objects.  Object.keys lists the keys in the order they were created,    *)
(* so each level is a sequence of [key, val] slots in creation order.      *)

emptyBook == << >>

\* the place of the key among the slots, 0 when it has none
slotOf(slots, key) ==
    IF \E i \in 1..Len(slots) : slots[i].key = key
    THEN CHOOSE i \in 1..Len(slots) : slots[i].key = key
    ELSE 0

\* the value under the key
valOf(slots, key) == slots[slotOf(slots, key)].val

\* if (!object[key]) object[key] = initial
withSlot(slots, key, initial) ==
    IF slotOf(slots, key) = 0 THEN Append(slots, [key |-> key, val |-> initial])
    ELSE slots

isBalanceKnown(book, owner, token, tranche) ==
    \E i \in 1..Len(book) :
        /\ book[i].key = owner
        /\ \E j \in 1..Len(book[i].val) :
              /\ book[i].val[j].key = token
              /\ \E k \in 1..Len(book[i].val[j].val) : book[i].val[j].val[k].key = tranche

getBalance(book, owner, token, tranche) ==
    IF isBalanceKnown(book, owner, token, tranche)
    THEN valOf(valOf(valOf(book, owner), token), tranche)
    ELSE 0

addBalance(book, owner, token, tranche, amount) ==
    LET ofTranche(tranches) == [tranches EXCEPT ![slotOf(tranches, tranche)].val = @ + amount]
        ofToken(tokens) ==
            [tokens EXCEPT ![slotOf(tokens, token)].val = ofTranche(withSlot(@, tranche, 0))]
        ofOwner(owners) ==
            [owners EXCEPT ![slotOf(owners, owner)].val = ofToken(withSlot(@, token, << >>))]
    IN ofOwner(withSlot(book, owner, << >>))

RECURSIVE flattenTranches(_, _, _)
flattenTranches(owner, token, trs) ==
    IF trs = << >> THEN << >>
    ELSE <<[owner |-> owner, token |-> token, tranche |-> Head(trs).key,
            amount |-> Head(trs).val]>> \o flattenTranches(owner, token, Tail(trs))

RECURSIVE flattenTokens(_, _)
flattenTokens(owner, toks) ==
    IF toks = << >> THEN << >>
    ELSE flattenTranches(owner, Head(toks).key, Head(toks).val)
         \o flattenTokens(owner, Tail(toks))

\* the balances listed from the owner created last to the one created first
RECURSIVE getAllBalancesBackwards(_)
getAllBalancesBackwards(book) ==
    IF book = << >> THEN << >>
    ELSE getAllBalancesBackwards(Tail(book)) \o flattenTokens(Head(book).key, Head(book).val)

RECURSIVE getAllBalances(_)
getAllBalances(book) ==
    IF book = << >> THEN << >>
    ELSE flattenTokens(Head(book).key, Head(book).val) \o getAllBalances(Tail(book))

RECURSIVE tokenKeys(_)
tokenKeys(toks) ==
    IF toks = << >> THEN << >> ELSE <<Head(toks).key>> \o tokenKeys(Tail(toks))

RECURSIVE getAllTokens(_)
getAllTokens(book) ==
    IF book = << >> THEN << >>
    ELSE tokenKeys(Head(book).val) \o getAllTokens(Tail(book))

RECURSIVE addAllBalances(_, _)
addAllBalances(book, balances) ==
    IF balances = << >> THEN book
    ELSE addAllBalances(addBalance(book, Head(balances).owner, Head(balances).token,
                                   Head(balances).tranche, Head(balances).amount),
                        Tail(balances))

copy(book) == addAllBalances(emptyBook, getAllBalances(book))

(* The objects behind a book.  this.balances, balances[owner] and          *)
(* balances[owner][token] are objects of their own, and two books that      *)
(* referred to one of them would change together.  objs lists the slots of  *)
(* every object in creation order; the val of an owner slot or of a token   *)
(* slot is the place in objs of the object it refers to, the val of a       *)
(* tranche slot is the (immutable) BigNumber.                               *)

\* new BalanceBook(): balances = {}
newBalanceBook(objs) == [objects |-> Append(objs, << >>), this |-> Len(objs) + 1]

\* if (!object[key]) { object[key] = {}; }
withObject(objs, object, key) ==
    IF slotOf(objs[object], key) # 0 THEN objs
    ELSE Append([objs EXCEPT ![object] = Append(@, [key |-> key, val |-> Len(objs) + 1])],
                << >>)

\* addBalance on the book whose balances object is at this
addBalanceTo(objs, this, owner, token, tranche, amount) ==
    LET ofThis == withObject(objs, this, owner)
        ownerObject == valOf(ofThis[this], owner)
        ofOwner == withObject(ofThis, ownerObject, token)
        tokenObject == valOf(ofOwner[ownerObject], token)
        ofToken == [ofOwner EXCEPT ![tokenObject] = withSlot(@, tranche, 0)]
    IN [ofToken EXCEPT ![tokenObject][slotOf(ofToken[tokenObject], tranche)].val = @ + amount]

\* getData: this.balances, with every object it refers to in place of its
\* reference
getData(objs, this) ==
    LET tokensOf(object) ==
            [j \in 1..Len(objs[object]) |->
                [key |-> objs[object][j].key, val |-> objs[objs[object][j].val]]]
    IN [i \in 1..Len(objs[this]) |->
           [key |-> objs[this][i].key, val |-> tokensOf(objs[this][i].val)]]

\* balanceBook.addBalance for each of the balances, in their order
RECURSIVE addAllBalancesTo(_, _, _)
addAllBalancesTo(objs, this, balances) ==
    IF balances = << >> THEN objs
    ELSE addAllBalancesTo(addBalanceTo(objs, this, Head(balances).owner,
                                       Head(balances).token, Head(balances).tranche,
                                       Head(balances).amount),
                          this, Tail(balances))

\* a copy that refers to the objects of the book it copies
copyOfReferences(objs, this) ==
    [objects |-> Append(objs, objs[this]), this |-> Len(objs) + 1]

\* copy on the book whose balances object is at this: the objects, and the
\* place of the balances object of the new book
copyOf(objs, this) ==
    LET balanceBook == newBalanceBook(objs)
    IN [objects |-> addAllBalancesTo(balanceBook.objects, balanceBook.this,
                                     getAllBalances(getData(objs, this))),
        this |-> balanceBook.this]

---------------------------------------------------------------------------
(* OrderUtil: the Spendable records.  The record an order's tokenSpendableS *)
(* (tokenSpendableFee) points to is the one of its owner and tokenS         *)
(* (feeToken): orders of one owner share it, which is what lets the         *)
(* reservations of one order limit the next (ring.ts, lines 165-167) and    *)
(* what validateRings compares the owner's transfers with.                  *)

newSpendable == [initialized |-> FALSE, amount |-> 0, reserved |-> 0, initialAmount |-> 0]

tokenSpendableS(o) == <<o.owner, o.tokenS>>

tokenSpendableFee(o) == <<o.owner, o.feeToken>>

\* getTokenSpendable: what the owner can spend of the token on the chain
getTokenSpendable(bal, owner, token) == bal[<<owner, token>>]

\* getSpendable, its first half: the first query caches the chain's amount
initSpendable(sp, key, bal) ==
    IF sp[key].initialized THEN sp
    ELSE [sp EXCEPT ![key] = [initialized |-> TRUE,
                              amount |-> getTokenSpendable(bal, key[1], key[2]),
                              reserved |-> @.reserved,
                              initialAmount |-> getTokenSpendable(bal, key[1], key[2])]]

\* getSpendable, its second half: the live budget
liveSpendable(sp, key) == sp[key].amount - sp[key].reserved

\* reserveAmountS, reserveAmountFee
reserveAmount(sp, key, amount) == [sp EXCEPT ![key].reserved = @ + amount]

\* resetReservations of one order
resetReservations(sp, o) ==
    [sp EXCEPT ![tokenSpendableS(o)].reserved = 0, ![tokenSpendableFee(o)].reserved = 0]

\* validateAllOrNone
validateAllOrNone(o) ==
    [o EXCEPT !.valid = @ /\ ~(o.allOrNone /\ o.filledAmountS < o.amountS)]

---------------------------------------------------------------------------
(* Ring *)

newParticipation(orderIndex) ==
    [order |-> orderIndex, splitS |-> 0, feeAmount |-> 0, feeAmountS |-> 0,
     feeAmountB |-> 0, rebateFee |-> 0, rebateS |-> 0, rebateB |-> 0,
     fillAmountS |-> 0, fillAmountB |-> 0, ringSpendableS |-> 0,
     ringSpendableFee |-> 0]

\* the constructor
newRing(indexes) ==
    [participations |-> [i \in 1..Len(indexes) |-> newParticipation(indexes[i])],
     valid |-> TRUE,
     minerFeesToOrdersPercentage |-> 0,
     feeBalances |-> emptyBook,
     transferItems |-> << >>,
     settled |-> FALSE]

\* (i + ringSize - 1) % ringSize, on the code's indexes 0..ringSize-1
prevIndexOf(i, ringSize) == (i + ringSize - 1) % ringSize

checkOrdersValid(ring, os) ==
    LET ps == ring.participations
        n == Len(ps)
    IN [ring EXCEPT !.valid =
          /\ @
          /\ n > 1 /\ n <= 8
          /\ \A i \in 0..(n - 1) :
               /\ os[ps[i + 1].order].valid
               /\ os[ps[i + 1].order].tokenS = os[ps[prevIndexOf(i, n) + 1].order].tokenB
               /\ os[ps[i + 1].order].tokenTypeS
                    = os[ps[prevIndexOf(i, n) + 1].order].tokenTypeB]

\* a ring that is not checked for sub-rings
checkForNothing(ring, os) == ring

checkForSubRings(ring, os) ==
    LET ps == ring.participations
        n == Len(ps)
    IN [ring EXCEPT !.valid =
          /\ @
          /\ \A i \in 0..(n - 2) : \A j \in (i + 1)..(n - 1) :
               os[ps[i + 1].order].tokenS # os[ps[j + 1].order].tokenS]

\* the fee of a fill of fillAmountS: feeAmount * fillAmountS / amountS
feeOfFill(o, fillAmountS) ==
    dividedToIntegerBy(o.feeAmount * fillAmountS, o.amountS)

\* remainingS of setMaxFillAmounts
remainingS(o) == o.amountS - o.filledAmountS

\* the available tokens given to fillAmountS alone
undividedSpendable(o, ringSpendableS) ==
    [fillAmountS |-> ringSpendableS,
     feeAmount |-> dividedToIntegerBy(ringSpendableS * o.feeAmount,
                                      o.amountS + o.feeAmount)]

\* the available tokens divided between fillAmountS and feeAmount when
\* feeToken is tokenS (lines 224-226)
dividedSpendable(o, ringSpendableS) ==
    [fillAmountS |-> dividedToIntegerBy(ringSpendableS * o.amountS,
                                        o.amountS + o.feeAmount),
     feeAmount |-> dividedToIntegerBy(ringSpendableS * o.feeAmount,
                                      o.amountS + o.feeAmount)]

\* setMaxFillAmounts: the participation and the spendables after it
setMaxFillAmounts(p, o, sp, bal) ==
    LET filled(fillAmountS, ringSpendableS, spAfter) ==
            [p |-> [p EXCEPT !.ringSpendableS = ringSpendableS,
                             !.fillAmountS = fillAmountS,
                             !.fillAmountB = dividedToIntegerBy(fillAmountS * o.amountB,
                                                                o.amountS)],
             sp |-> spAfter]
        \* the fill the fee the owner can pay leaves
        limited(fillAmountS, feeAmount, ringSpendableS, spendableFee) ==
            IF o.feeToken = o.tokenS /\ fillAmountS + feeAmount > ringSpendableS
            THEN dividedSpendable(o, ringSpendableS).fillAmountS
            ELSE IF feeAmount > spendableFee
            THEN dividedToIntegerBy(spendableFee * o.amountS, o.feeAmount)
            ELSE fillAmountS
        withFee(fillAmountS, ringSpendableS, spFee) ==
            filled(limited(fillAmountS, feeOfFill(o, fillAmountS), ringSpendableS,
                           liveSpendable(spFee, tokenSpendableFee(o))),
                   ringSpendableS, spFee)
        paidInB == /\ o.feeToken = o.tokenB
                   /\ o.owner = o.tokenRecipient
                   /\ o.feeAmount <= o.amountB
        fill(fillAmountS, ringSpendableS, spS) ==
            IF ~o.P2P /\ ~paidInB /\ feeOfFill(o, fillAmountS) > 0
            THEN withFee(fillAmountS, ringSpendableS,
                         initSpendable(spS, tokenSpendableFee(o), bal))
            ELSE filled(fillAmountS, ringSpendableS, spS)
        spend(ringSpendableS, spS) ==
            fill(Min(ringSpendableS, remainingS(o)), ringSpendableS, spS)
        query(spS) == spend(liveSpendable(spS, tokenSpendableS(o)), spS)
    IN query(initSpendable(sp, tokenSpendableS(o), bal))

\* for (const p of this.participations) setMaxFillAmounts(p), from index i on
RECURSIVE setMaxFillAmountsAll(_, _, _, _, _)
setMaxFillAmountsAll(i, ps, os, sp, bal) ==
    IF i >= Len(ps) THEN [ps |-> ps, sp |-> sp]
    ELSE LET next(r) == setMaxFillAmountsAll(i + 1, [ps EXCEPT ![i + 1] = r.p], os, r.sp, bal)
         IN next(setMaxFillAmounts(ps[i + 1], os[ps[i + 1].order], sp, bal))

\* the share of fillAmountS left by the fee, truncated after the
\* multiplication
postFeeShareOfFillAmountS(p, o) ==
    dividedToIntegerBy(p.fillAmountS * (feePercentageBase - o.tokenSFeePercentage),
                       feePercentageBase)

\* what participation p sends on after its fee in tokenS
postFeeFillAmountS(p, o) ==
    IF o.tokenSFeePercentage > 0
    THEN p.fillAmountS
         - dividedToIntegerBy(p.fillAmountS * o.tokenSFeePercentage, feePercentageBase)
    ELSE p.fillAmountS

\* resize: the participations and the new smallest
resize(ps, os, i, smallest) ==
    LET j == prevIndexOf(i, Len(ps))
        prevO == os[ps[j + 1].order]
        shrink(postFeeFillAmountS_) ==
            IF ps[j + 1].fillAmountB > postFeeFillAmountS_
            THEN [ps |-> [ps EXCEPT ![j + 1].fillAmountB = postFeeFillAmountS_,
                                    ![j + 1].fillAmountS =
                                        dividedToIntegerBy(postFeeFillAmountS_ * prevO.amountS,
                                                           prevO.amountB)],
                  smallest |-> i]
            ELSE [ps |-> ps, smallest |-> smallest]
    IN shrink(postFeeFillAmountS(ps[i + 1], os[ps[i + 1].order]))

\* for (i = ringSize - 1; i >= 0; i--) smallest = resize(i, smallest)
RECURSIVE resizeFirstSweep(_, _, _, _)
resizeFirstSweep(i, ps, os, smallest) ==
    IF i < 0 THEN [ps |-> ps, smallest |-> smallest]
    ELSE LET next(r) == resizeFirstSweep(i - 1, r.ps, os, r.smallest)
         IN next(resize(ps, os, i, smallest))

\* a second sweep that resizes nothing
resizeNoMore(i, ps, os, smallest) == ps

\* for (i = ringSize - 1; i >= smallest; i--) resize(i, smallest)
RECURSIVE resizeSecondSweep(_, _, _, _)
resizeSecondSweep(i, ps, os, smallest) ==
    IF i < smallest THEN ps
    ELSE resizeSecondSweep(i - 1, resize(ps, os, i, smallest).ps, os, smallest)

\* for (const p of this.participations) reserveAmountS(p.order, p.fillAmountS)
\* a ring that reserves no amount of tokenS
reserveNothing(i, ps, os, sp) == sp

RECURSIVE reserveAmountSAll(_, _, _, _)
reserveAmountSAll(i, ps, os, sp) ==
    IF i >= Len(ps) THEN sp
    ELSE reserveAmountSAll(i + 1, ps, os,
                           reserveAmount(sp, tokenSpendableS(os[ps[i + 1].order]),
                                         ps[i + 1].fillAmountS))

\* a fillAmountS that leaves the fee paid in tokenS out
fillAmountSWithoutFeeS(p, prevP) == prevP.fillAmountB

\* p.fillAmountS once the margin is taken off (line 273)
fillAmountSOfMargin(p, prevP) == prevP.fillAmountB + p.feeAmountS

\* whether a matching fee is paid in tokenB, out of fillAmountB (lines 253-255)
paysInTokenB(p, o, feeAmount) ==
    /\ o.feeToken = o.tokenB
    /\ o.owner = o.tokenRecipient
    /\ p.fillAmountB >= feeAmount

\* a matching fee that stays due in feeToken when it is paid in tokenB
matchingFeeAmountKept(p, o) == feeOfFill(o, p.fillAmountS)

\* the matching fee left to pay in feeToken (lines 248, 256-257)
matchingFeeAmount(p, o) ==
    IF paysInTokenB(p, o, feeOfFill(o, p.fillAmountS)) THEN 0
    ELSE feeOfFill(o, p.fillAmountS)

\* the matching fee paid in tokenB (lines 250, 256)
matchingFeeAmountB(p, o) ==
    IF paysInTokenB(p, o, feeOfFill(o, p.fillAmountS)) THEN feeOfFill(o, p.fillAmountS)
    ELSE 0

\* calculateFees(p, prevP): the participations, the spendables and its result
calculateFees(ps, os, sp, bal, i, prevIndex) ==
    LET o == os[ps[i + 1].order]
        prevP == ps[prevIndex + 1]
        done(p, spAfter, valid) ==
            [ps |-> [ps EXCEPT ![i + 1] = p], sp |-> spAfter, valid |-> valid]
        \* lines 270-277
        margin(p, spAfter) ==
            IF p.fillAmountS - p.feeAmountS >= prevP.fillAmountB
            THEN done([p EXCEPT !.splitS = (p.fillAmountS - p.feeAmountS) - prevP.fillAmountB,
                                !.fillAmountS = fillAmountSOfMargin(p, prevP)],
                      spAfter, TRUE)
            ELSE done(p, spAfter, FALSE)
        \* lines 260-267
        reserve(p, spFee) ==
            IF p.feeAmount > p.ringSpendableFee THEN done(p, spFee, FALSE)
            ELSE margin(p, reserveAmount(spFee, tokenSpendableFee(o), p.feeAmount))
        \* lines 247-261
        matching(p, spFee) ==
            reserve([p EXCEPT !.feeAmount = matchingFeeAmount(p, o),
                              !.feeAmountS = 0,
                              !.feeAmountB = matchingFeeAmountB(p, o),
                              !.ringSpendableFee = liveSpendable(spFee, tokenSpendableFee(o))],
                    spFee)
        \* lines 240-245
        P2P(p) ==
            margin([p EXCEPT
                      !.feeAmount = 0,
                      !.feeAmountS = dividedToIntegerBy(p.fillAmountS * o.tokenSFeePercentage,
                                                        feePercentageBase),
                      !.feeAmountB = dividedToIntegerBy(p.fillAmountB * o.tokenBFeePercentage,
                                                        feePercentageBase)],
                   sp)
    IN IF o.P2P THEN P2P(ps[i + 1])
       ELSE matching(ps[i + 1], initSpendable(sp, tokenSpendableFee(o), bal))

\* the canSend probe of an ERC1400 leg in calculateFillAmountAndFee
canSendLeg(o, prevO, canSend) ==
    \/ o.tokenTypeS # ERC1400
    \/ /\ canSend[o.tokenS].ESC \in {"0xa0", "0xa1", "0xa2"}
       /\ canSend[o.tokenS].destTranche = prevO.trancheB

\* the loop of calculateFillAmountAndFee over the pairs (p, prevP)
RECURSIVE calculateFeesAll(_, _, _, _, _, _)
calculateFeesAll(i, c, os, bal, canSend, ringSize) ==
    IF i >= ringSize THEN c
    ELSE LET prevIndex == prevIndexOf(i, ringSize)
             o == os[c.ps[i + 1].order]
             next(r) ==
                 calculateFeesAll(i + 1,
                   [ps |-> r.ps,
                    sp |-> r.sp,
                    valid |-> /\ c.valid
                              /\ canSendLeg(o, os[c.ps[prevIndex + 1].order], canSend)
                              /\ r.valid,
                    mfop |-> IF o.waiveFeePercentage < 0
                             THEN c.mfop - o.waiveFeePercentage ELSE c.mfop],
                   os, bal, canSend, ringSize)
         IN next(calculateFees(c.ps, os, c.sp, bal, i, prevIndex))

\* reservations that are left as they are
keepReservations(i, ps, os, sp) == sp

RECURSIVE resetReservationsAll(_, _, _, _)
resetReservationsAll(i, ps, os, sp) ==
    IF i >= Len(ps) THEN sp
    ELSE resetReservationsAll(i + 1, ps, os, resetReservations(sp, os[ps[i + 1].order]))

\* calculateFillAmountAndFee: the ring and the spendables after it
calculateFillAmountAndFee(ring, os, sp, bal, canSend) ==
    IF ~ring.valid THEN [ring |-> ring, sp |-> sp]
    ELSE
    LET ringSize == Len(ring.participations)
        \* lines 196-202
        result(c) ==
            [ring |-> [ring EXCEPT !.participations = c.ps,
                                   !.minerFeesToOrdersPercentage = c.mfop,
                                   !.valid = c.valid /\ c.mfop <= feePercentageBase],
             sp |-> resetReservationsAll(0, c.ps, os, c.sp)]
        \* lines 168-195
        fees(ps, spMax) ==
            result(calculateFeesAll(0, [ps |-> ps,
                                        sp |-> reserveAmountSAll(0, ps, os, spMax),
                                        valid |-> TRUE,
                                        mfop |-> ring.minerFeesToOrdersPercentage],
                                    os, bal, canSend, ringSize))
        \* lines 161-163
        secondSweep(r, spMax) ==
            fees(resizeSecondSweep(ringSize - 1, r.ps, os, r.smallest), spMax)
        \* lines 154-159
        firstSweep(m) == secondSweep(resizeFirstSweep(ringSize - 1, m.ps, os, 0), m.sp)
    IN firstSweep(setMaxFillAmountsAll(0, ring.participations, os, sp, bal))

\* spendables that forget what an order has sold
spendNothing(sp, key, amount) == sp

\* what adjustOrderState takes off a Spendable
spend(sp, key, amount) == [sp EXCEPT ![key].amount = @ - amount]

\* adjustOrderState of the participations from index i on: the orders, the
\* spendables and whether its assertions held
RECURSIVE adjustOrderStates(_, _, _, _)
adjustOrderStates(i, ps, os, sp) ==
    IF i >= Len(ps) THEN [os |-> os, sp |-> sp, ok |-> TRUE]
    ELSE
    LET p == ps[i + 1]
        o == os[p.order]
        adjusted(osAfter, spAfter) ==
            IF /\ spAfter[tokenSpendableS(o)].amount >= 0
               /\ spAfter[tokenSpendableFee(o)].amount >= 0
               /\ osAfter[p.order].filledAmountS <= o.amountS
            THEN adjustOrderStates(i + 1, ps, osAfter, spAfter)
            ELSE [os |-> osAfter, sp |-> spAfter, ok |-> FALSE]
    IN adjusted([os EXCEPT ![p.order].filledAmountS = @ + p.fillAmountS + p.splitS],
                spend(spend(sp, tokenSpendableS(o), p.fillAmountS + p.splitS),
                      tokenSpendableFee(o), p.feeAmount))

\* a revert that leaves the filled amounts as they are
keepOrderStats(i, ps, os) == [os |-> os, ok |-> TRUE]

\* revertOrderStats of the participations from index i on
RECURSIVE revertOrderStats(_, _, _)
revertOrderStats(i, ps, os) ==
    IF i >= Len(ps) THEN [os |-> os, ok |-> TRUE]
    ELSE
    LET p == ps[i + 1]
        reverted(osAfter) ==
            IF osAfter[p.order].filledAmountS >= 0 THEN revertOrderStats(i + 1, ps, osAfter)
            ELSE [os |-> osAfter, ok |-> FALSE]
    IN reverted([os EXCEPT ![p.order].filledAmountS = @ - (p.fillAmountS + p.splitS)])

---------------------------------------------------------------------------
(* Ring: payments *)

\* mining.feeRecipient
feeRecipient == "miner"

\* a transfer item of an ERC20 token carries no data
NoData == "undefined"

\* addFeePayment
addFeePayment(fb, token, to, amount) ==
    IF token = NoAddress \/ to = NoAddress THEN fb
    ELSE addBalance(fb, to, token, zeroAddress, amount)

\* the burn rate of a fee in the token: the high half of burnRateToken for a
\* P2P order, the low half otherwise
burnRateOf(o, token, burnRates) ==
    IF o.P2P THEN burnRates[token] \div burnRateShift
    ELSE burnRates[token] % burnRateShift

\* a miner fee raised, not lowered, by a positive waiveFeePercentage
raisedMinerFee(o, minerFee) ==
    IF o.waiveFeePercentage > 0
    THEN dividedToIntegerBy(minerFee * (feePercentageBase + o.waiveFeePercentage),
                            feePercentageBase)
    ELSE IF o.waiveFeePercentage < 0 THEN 0 ELSE minerFee

\* the miner fee after the order's waiveFeePercentage
waivedMinerFee(o, minerFee) ==
    IF o.waiveFeePercentage > 0
    THEN dividedToIntegerBy(minerFee * (feePercentageBase - o.waiveFeePercentage),
                            feePercentageBase)
    ELSE IF o.waiveFeePercentage < 0 THEN 0 ELSE minerFee

\* a miner fee of which no order gets a share
payNoOrder(k, fb, ps, os, token, minerFee) == fb

\* the loop of payFeesAndBurn that pays the miner fee out to the orders with
\* a negative waiveFeePercentage, from index k on
RECURSIVE payFeesToOrders(_, _, _, _, _, _)
payFeesToOrders(k, fb, ps, os, token, minerFee) ==
    IF k >= Len(ps) THEN fb
    ELSE LET otherO == os[ps[k + 1].order]
         IN payFeesToOrders(k + 1,
              IF otherO.waiveFeePercentage < 0
              THEN addFeePayment(fb, token, otherO.owner,
                     dividedToIntegerBy(minerFee * (-otherO.waiveFeePercentage),
                                        feePercentageBase))
              ELSE fb,
              ps, os, token, minerFee)

\* what the miner keeps of a miner fee it shares with the orders
feeToMinerOf(minerFee, mfop) ==
    dividedToIntegerBy(minerFee * (feePercentageBase - mfop), feePercentageBase)

\* the fee balances payFeesAndBurn credits for the wallet fee and the miner
\* fee left after the waiving (lines 550-602), and its result (lines 604-609)
payOut(ring, os, o, token, totalAmount, walletFee, minerFeeWaived, burnRate) ==
    LET burnAddress == feeHolder
        rebateRate == 0
        credit(feeToWallet, minerFee, burn) ==
            [rebate |-> totalAmount - ((feeToWallet + minerFee) + burn),
             feeBalances |->
                addFeePayment(
                    addFeePayment(
                        addFeePayment(
                            IF ring.minerFeesToOrdersPercentage > 0 /\ minerFee > 0
                            THEN payFeesToOrders(0, ring.feeBalances, ring.participations,
                                                 os, token, minerFee)
                            ELSE ring.feeBalances,
                            token, o.walletAddr, feeToWallet),
                        token, feeRecipient,
                        IF ring.minerFeesToOrdersPercentage > 0 /\ minerFee > 0
                        THEN feeToMinerOf(minerFee, ring.minerFeesToOrdersPercentage)
                        ELSE minerFee),
                    token, burnAddress, burn),
             ok |-> (feeToWallet + minerFee) + burn <= totalAmount]
        burnt(minerBurn, minerRebate, walletBurn, walletRebate) ==
            credit(walletFee - walletBurn - walletRebate,
                   minerFeeWaived - minerBurn - minerRebate,
                   minerBurn + walletBurn)
    IN burnt(dividedToIntegerBy(minerFeeWaived * burnRate, feePercentageBase),
             dividedToIntegerBy(minerFeeWaived * rebateRate, feePercentageBase),
             dividedToIntegerBy(walletFee * burnRate, feePercentageBase),
             dividedToIntegerBy(walletFee * rebateRate, feePercentageBase))

\* payFeesAndBurn that charges a P2P order without a wallet as any other
payFeesOfAnyOrder(ring, os, p, token, totalAmount, walletSplitPercentage, burnRates) ==
    IF totalAmount = 0
    THEN [rebate |-> 0, feeBalances |-> ring.feeBalances, ok |-> TRUE]
    ELSE payOut(ring, os, os[p.order], token, totalAmount,
                dividedToIntegerBy(totalAmount * walletSplitPercentage, walletSplitBase),
                waivedMinerFee(os[p.order],
                               totalAmount
                                 - dividedToIntegerBy(totalAmount * walletSplitPercentage,
                                                      walletSplitBase)),
                burnRateOf(os[p.order], token, burnRates))

\* payFeesAndBurn: the rebate, the ring's feeBalances after it, and whether
\* its assertion held
payFeesAndBurn(ring, os, p, token, totalAmount, walletSplitPercentage, burnRates) ==
    IF totalAmount = 0
    THEN [rebate |-> 0, feeBalances |-> ring.feeBalances, ok |-> TRUE]
    ELSE
    LET o == os[p.order]
        split(amount, walletFee) ==
            payOut(ring, os, o, token, totalAmount, walletFee,
                   waivedMinerFee(o, amount - walletFee), burnRateOf(o, token, burnRates))
        pay(amount) ==
            split(amount, dividedToIntegerBy(amount * walletSplitPercentage, walletSplitBase))
    IN pay(IF o.P2P /\ o.walletAddr = NoAddress THEN 0 ELSE totalAmount)

\* the wallet percentage payFees hands to payFeesAndBurn
walletPercentageOf(o) ==
    IF o.P2P THEN 100
    ELSE IF o.walletAddr # NoAddress THEN o.walletSplitPercentage ELSE 0

\* payFees, from index i on: the ring and whether the assertions held
RECURSIVE payFees(_, _, _, _)
payFees(i, ring, os, burnRates) ==
    IF i >= Len(ring.participations) THEN [ring |-> ring, ok |-> TRUE]
    ELSE
    LET p == ring.participations[i + 1]
        o == os[p.order]
        \* one payFeesAndBurn call, on the ring r.ring as the calls before left it
        paid(r, rebate, token, amount) ==
            LET taken(x) ==
                    [ring |-> [r.ring EXCEPT !.feeBalances = x.feeBalances,
                                             !.participations[i + 1][rebate] = x.rebate],
                     ok |-> x.ok]
            IN IF r.ok
               THEN taken(payFeesAndBurn(r.ring, os, p, token, amount, walletPercentageOf(o),
                                         burnRates))
               ELSE r
        next(r) == IF r.ok THEN payFees(i + 1, r.ring, os, burnRates) ELSE r
    IN next(paid(paid(paid([ring |-> ring, ok |-> TRUE],
                           "rebateFee", o.feeToken, p.feeAmount),
                      "rebateS", o.tokenS, p.feeAmountS),
                 "rebateB", o.tokenB, p.feeAmountB))

\* addTokenTransfer: the transfer items after it and whether its assertion held
addTokenTransfer(items, tokenType, fromTranche, token, from, to, amount, data, canSend) ==
    IF from # to /\ amount > 0
    THEN IF tokenType = ERC20
         THEN [items |-> Append(items,
                 [token |-> token, from |-> from, to |-> to, amount |-> amount,
                  tokenType |-> tokenType, fromTranche |-> zeroAddress,
                  toTranche |-> zeroAddress, data |-> NoData]),
               ok |-> TRUE]
         ELSE IF tokenType = ERC1400
         THEN [items |-> Append(items,
                 [token |-> token, from |-> from, to |-> to, amount |-> amount,
                  tokenType |-> tokenType, fromTranche |-> fromTranche,
                  toTranche |-> canSend[token].destTranche,
                  data |-> IF data # NoData THEN data ELSE "0x"]),
               ok |-> canSend[token].ESC \in {"0xa0", "0xa1", "0xa2"}]
         ELSE [items |-> items, ok |-> TRUE]
    ELSE [items |-> items, ok |-> TRUE]

\* a margin paid out whatever the token type
marginOfAnyToken(p, o) == p.splitS

\* the margin transferTokens pays out to the miner
marginOf(p, o) == IF o.tokenTypeS = ERC1400 THEN 0 ELSE p.splitS

\* transferTokens, from index i on: the transfer items and whether the
\* assertions held
RECURSIVE transferTokens(_, _, _, _, _)
transferTokens(i, items, ps, os, canSend) ==
    IF i >= Len(ps) THEN [items |-> items, ok |-> TRUE]
    ELSE
    LET p == ps[i + 1]
        o == os[p.order]
        prevP == ps[prevIndexOf(i, Len(ps)) + 1]
        prevO == os[prevP.order]
        buyerFeeAmountAfterRebateB == prevP.feeAmountB - prevP.rebateB
        amountSToBuyer == p.fillAmountS - p.feeAmountS - buyerFeeAmountAfterRebateB
        amountFee == p.feeAmount - p.rebateFee
        amountSToFeeHolder == (p.feeAmountS - p.rebateS) + buyerFeeAmountAfterRebateB
                              + (IF o.tokenS = o.feeToken THEN amountFee ELSE 0)
        amountFeeToFeeHolder == IF o.tokenS = o.feeToken THEN 0 ELSE amountFee
        \* one addTokenTransfer call, on the items as the calls before left them
        added(t, tokenType, fromTranche, token, to, amount, data) ==
            LET taken(x) == [items |-> x.items, ok |-> t.ok /\ x.ok]
            IN taken(addTokenTransfer(t.items, tokenType, fromTranche, token, o.owner, to,
                                      amount, data, canSend))
        next(t) == IF t.ok THEN transferTokens(i + 1, t.items, ps, os, canSend) ELSE t
    IN next(added(added(added(added([items |-> items,
                                     ok |-> buyerFeeAmountAfterRebateB >= 0],
                                    o.tokenTypeS, o.trancheS, o.tokenS, prevO.tokenRecipient,
                                    amountSToBuyer, o.transferDataS),
                              o.tokenTypeS, o.trancheS, o.tokenS, feeHolder,
                              amountSToFeeHolder, o.transferDataS),
                        o.tokenTypeFee, o.trancheFee, o.feeToken, feeHolder,
                        amountFeeToFeeHolder, "0x"),
                  o.tokenTypeS, o.trancheS, o.tokenS, feeRecipient, marginOf(p, o),
                  o.transferDataS))

\* generateFills
generateFills(ring, os) ==
    [i \in 1..Len(ring.participations) |->
       LET p == ring.participations[i]
           o == os[p.order]
       IN [orderHash |-> o.hash, owner |-> o.owner, tokenS |-> o.tokenS,
           amountS |-> p.fillAmountS, split |-> p.splitS,
           feeAmount |-> IF o.P2P THEN p.feeAmount ELSE p.feeAmount + p.feeAmountB]]

---------------------------------------------------------------------------
(* Ring: validateSettlement *)

\* Number((n / 1e18).toFixed(8)) of the quotient num / den: a finite quotient
\* of the model is far below 5e9 and comes out as 0; a division by zero is
\* Infinity, or NaN for 0 / 0
fixedQuotient(num, den) ==
    IF den # 0 THEN "0" ELSE IF num = 0 THEN "NaN" ELSE "Infinity"

\* assertAlmostEqual on two such numbers: NaN equals nothing
assertAlmostEqual(n1, n2) == n1 = n2 /\ n1 # "NaN"

\* calculateBurnAndRebate of validateSettlement
calculateBurnAndRebate(o, token, amount, burnRates) ==
    LET rebateRate == 0
        burnRate == burnRateOf(o, token, burnRates)
        total(feeToWallet, minerFee, burn) ==
            [burn |-> burn, rebate |-> amount - ((feeToWallet + minerFee) + burn)]
        burnt(walletFee, minerFeeWaived, minerBurn, minerRebate, walletBurn, walletRebate) ==
            total(walletFee - walletBurn - walletRebate,
                  minerFeeWaived - minerBurn - minerRebate,
                  minerBurn + walletBurn)
        waived(walletFee, minerFeeWaived) ==
            burnt(walletFee, minerFeeWaived,
                  dividedToIntegerBy(minerFeeWaived * burnRate, feePercentageBase),
                  dividedToIntegerBy(minerFeeWaived * rebateRate, feePercentageBase),
                  dividedToIntegerBy(walletFee * burnRate, feePercentageBase),
                  dividedToIntegerBy(walletFee * rebateRate, feePercentageBase))
        split(walletFee) == waived(walletFee, waivedMinerFee(o, amount - walletFee))
    IN split(dividedToIntegerBy(amount * (IF o.P2P THEN 100 ELSE o.walletSplitPercentage),
                                walletSplitBase))

\* the burn and the rebate validateSettlement expects of participation p for
\* each of its three fee amounts
expectedBurnAndRebate(p, o, burnRates) ==
    LET noFees == o.P2P /\ o.walletAddr = NoAddress
        expected(fee, feeS, feeB) ==
            [burnFee |-> fee.burn, rebateFee |-> fee.rebate,
             burnS |-> IF noFees THEN 0 ELSE feeS.burn,
             rebateS |-> IF noFees THEN p.feeAmountS ELSE feeS.rebate,
             burnB |-> IF noFees THEN 0 ELSE feeB.burn,
             rebateB |-> IF noFees THEN p.feeAmountB ELSE feeB.rebate]
    IN expected(calculateBurnAndRebate(o, o.feeToken, p.feeAmount, burnRates),
                calculateBurnAndRebate(o, o.tokenS, p.feeAmountS, burnRates),
                calculateBurnAndRebate(o, o.tokenB, p.feeAmountB, burnRates))

\* the assertions of the first loop of validateSettlement on participation i
settlementOfParticipation(ring, os, burnRates, i) ==
    LET ps == ring.participations
        p == ps[i + 1]
        prevP == ps[prevIndexOf(i, Len(ps)) + 1]
        o == os[p.order]
        fee == dividedToIntegerBy(o.feeAmount * (p.fillAmountS + p.splitS), o.amountS)
        rebatesMatch(expected) ==
            /\ p.rebateFee = expected.rebateFee
            /\ p.rebateS = expected.rebateS
            /\ p.rebateB = expected.rebateB
    IN \* Sanity checks
       /\ p.fillAmountS >= 0 /\ p.splitS >= 0
       /\ p.feeAmount >= 0 /\ p.feeAmountS >= 0 /\ p.feeAmountB >= 0
       /\ p.rebateFee >= 0 /\ p.rebateS >= 0 /\ p.rebateB >= 0
       \* General fill requirements
       /\ p.fillAmountS + p.splitS <= o.amountS
       /\ p.fillAmountB <= o.amountB
       /\ p.feeAmount <= o.feeAmount
       /\ (p.fillAmountS > 0 \/ p.fillAmountB > 0)
            => assertAlmostEqual(fixedQuotient(p.fillAmountS + p.splitS, p.fillAmountB),
                                 fixedQuotient(o.amountS, o.amountB))
       /\ p.rebateFee <= p.feeAmount
       /\ p.rebateS <= p.feeAmountS
       /\ p.rebateB <= p.feeAmountB
       \* Miner/Taker gets all margin
       /\ p.fillAmountS - p.feeAmountS = prevP.fillAmountB
       \* Spendable limitations
       /\ IF o.tokenS = o.feeToken
          THEN p.fillAmountS + p.splitS + p.feeAmount <= p.ringSpendableS
          ELSE /\ p.fillAmountS + p.splitS <= p.ringSpendableS
               /\ p.feeAmount <= p.ringSpendableFee
       \* Ensure fees are calculated correctly
       /\ IF o.P2P
          THEN /\ p.feeAmount = 0
               /\ IF o.walletAddr # NoAddress
                  THEN /\ assertAlmostEqual(fixedQuotient(p.feeAmountS, p.fillAmountS),
                                            fixedQuotient(o.tokenSFeePercentage, 1))
                       /\ assertAlmostEqual(fixedQuotient(p.feeAmountB, p.fillAmountB),
                                            fixedQuotient(o.tokenBFeePercentage, 1))
                  ELSE /\ p.feeAmountS = p.rebateS
                       /\ p.feeAmountB = p.rebateB
          ELSE /\ p.feeAmountS = 0
               /\ ~(p.feeAmount > 0 /\ p.feeAmountB > 0)
               /\ IF /\ o.feeToken = o.tokenB
                     /\ o.owner = o.tokenRecipient
                     /\ p.fillAmountB >= fee
                  THEN p.feeAmountB = fee /\ p.feeAmount = 0
                  ELSE /\ p.feeAmountB = 0
                       /\ p.feeAmount = fee
                       /\ p.feeAmount <= p.ringSpendableFee
       \* Check rebates and burn rates
       /\ rebatesMatch(expectedBurnAndRebate(p, o, burnRates))
       \* Ensure fees in tokenB can be paid with the amount bought
       /\ prevP.feeAmountB <= p.fillAmountS

\* expectedTotalBurned of validateSettlement, from index i on
RECURSIVE expectedTotalBurned(_, _, _, _, _)
expectedTotalBurned(i, book, ring, os, burnRates) ==
    IF i >= Len(ring.participations) THEN book
    ELSE
    LET p == ring.participations[i + 1]
        o == os[p.order]
        burned(expected) ==
            addBalance(
                addBalance(
                    addBalance(book, zeroAddress, o.feeToken, zeroAddress, expected.burnFee),
                    zeroAddress, o.tokenS, o.trancheS, expected.burnS),
                zeroAddress, o.tokenB, o.trancheB, expected.burnB)
    IN expectedTotalBurned(i + 1, burned(expectedBurnAndRebate(p, o, burnRates)), ring, os,
                           burnRates)

\* a book with every transfer taken from its sender and given to its receiver
RECURSIVE applyTransfers(_, _)
applyTransfers(book, transfers) ==
    IF transfers = << >> THEN book
    ELSE LET t == Head(transfers)
         IN applyTransfers(
                addBalance(addBalance(book, t.from, t.token, t.fromTranche, -t.amount),
                           t.to, t.token, t.toTranche, t.amount),
                Tail(transfers))

\* expectedBalances of validateSettlement, from index i on
RECURSIVE expectedBalances(_, _, _, _)
expectedBalances(i, book, ring, os) ==
    IF i >= Len(ring.participations) THEN book
    ELSE
    LET p == ring.participations[i + 1]
        o == os[p.order]
        b1 == addBalance(book, o.owner, o.tokenS, o.trancheS,
                         -((p.fillAmountS - p.rebateS) + p.splitS))
        b2 == addBalance(b1, o.tokenRecipient, o.tokenB, o.trancheB,
                         p.fillAmountB - (p.feeAmountB - p.rebateB))
        b3 == addBalance(b2, o.owner, o.feeToken, zeroAddress,
                         -(p.feeAmount - p.rebateFee))
        b4 == addBalance(b3, feeRecipient, o.tokenS, o.trancheS, p.splitS)
    IN expectedBalances(i + 1, b4, ring, os)

\* expectedFeeBalances of validateSettlement, from index i on
RECURSIVE expectedFeeBalances(_, _, _, _)
expectedFeeBalances(i, book, ring, os) ==
    IF i >= Len(ring.participations) THEN book
    ELSE
    LET p == ring.participations[i + 1]
        o == os[p.order]
        b1 == addBalance(book, feeHolder, o.tokenS, o.trancheS, p.feeAmountS - p.rebateS)
        b2 == addBalance(b1, feeHolder, o.tokenB, o.trancheB, p.feeAmountB - p.rebateB)
        b3 == addBalance(b2, feeHolder, o.feeToken, zeroAddress, p.feeAmount - p.rebateFee)
    IN expectedFeeBalances(i + 1, b3, ring, os)

\* Object.keys of an array: its indexes, as strings
objectKeysOfArray(list) == [i \in 1..Len(list) |-> ToString(i - 1)]

\* Object.keys of a BalanceBook: the names of its two fields
objectKeysOfBook == <<"balances", "zeroAddress">>

\* the sum of the amounts of the balances of the token in a list of balances
RECURSIVE totalOfToken(_, _)
totalOfToken(balances, token) ==
    IF balances = << >> THEN 0
    ELSE (IF Head(balances).token = token THEN Head(balances).amount ELSE 0)
         + totalOfToken(Tail(balances), token)

\* the checks of validateSettlement on the books it has built (lines 840-885)
booksMatch(ring, os, balances, expBalances, expFeeBalances, expBurned) ==
    LET feeTokens == objectKeysOfBook \o getAllTokens(balances)
        mirrorTokens == objectKeysOfArray(getAllTokens(ring.feeBalances))
                        \o objectKeysOfArray(getAllTokens(balances))
        burnTokens == objectKeysOfArray(getAllTokens(expBurned))
                      \o objectKeysOfArray(getAllTokens(ring.feeBalances))
    IN \* Check balances of all owners
       /\ \A i \in 0..(Len(ring.participations) - 1) :
            LET o == os[ring.participations[i + 1].order]
            IN /\ getBalance(balances, o.owner, o.tokenS, o.trancheS)
                    = getBalance(expBalances, o.owner, o.tokenS, o.trancheS)
               /\ getBalance(balances, o.tokenRecipient, o.tokenB, o.trancheB)
                    = getBalance(expBalances, o.tokenRecipient, o.tokenB, o.trancheB)
               /\ getBalance(balances, o.owner, o.feeToken, zeroAddress)
                    = getBalance(expBalances, o.owner, o.feeToken, zeroAddress)
       \* Check fee holder balances of all possible tokens used to pay fees
       /\ \A k \in 1..Len(feeTokens) :
            getBalance(balances, feeHolder, feeTokens[k], zeroAddress)
              = getBalance(expFeeBalances, feeHolder, feeTokens[k], zeroAddress)
       \* Ensure total fee payments match transferred amounts to feeHolder contract
       /\ \A k \in 1..Len(mirrorTokens) :
            totalOfToken(getAllBalances(ring.feeBalances), mirrorTokens[k])
              = getBalance(balances, feeHolder, mirrorTokens[k], zeroAddress)
       \* Ensure total burn payments match expected total burned
       /\ \A k \in 1..Len(burnTokens) :
            getBalance(ring.feeBalances, zeroAddress, burnTokens[k], zeroAddress)
              = getBalance(expBurned, zeroAddress, burnTokens[k], zeroAddress)

\* validateSettlement: whether every assertion of it holds
validateSettlement(ring, os, transfers, burnRates) ==
    /\ \A i \in 0..(Len(ring.participations) - 1) :
          settlementOfParticipation(ring, os, burnRates, i)
    /\ booksMatch(ring, os,
                  applyTransfers(emptyBook, transfers),
                  expectedBalances(0, emptyBook, ring, os),
                  expectedFeeBalances(0, emptyBook, ring, os),
                  expectedTotalBurned(0, emptyBook, ring, os, burnRates))

\* doPayments of a valid ring: the ring with its rebates, fee balances and
\* transfer items, and whether no assertion threw
doPayments(ring, os, burnRates, canSend) ==
    LET validated(paid, moved, ok) ==
            [ring |-> [paid.ring EXCEPT !.transferItems = moved.items, !.settled = ok],
             ok |-> ok]
        transferred(paid, moved) ==
            validated(paid, moved,
                      moved.ok /\ validateSettlement(paid.ring, os, moved.items, burnRates))
        feesPaid(paid) ==
            IF paid.ok
            THEN transferred(paid, transferTokens(0, << >>, paid.ring.participations, os,
                                                  canSend))
            ELSE paid
    IN feesPaid(payFees(0, ring, os, burnRates))

---------------------------------------------------------------------------
(* ProtocolSimulator *)

\* a ring hash that does not tell the rings apart
noRingHash(ring, os) == << >>

\* the hash of a ring: its order hashes in order
ringHashOf(ring, os) ==
    [i \in 1..Len(ring.participations) |-> os[ring.participations[i].order].hash]

\* what batchGetFilledAndCheckCancelled returns for order i
filledOrCancelled(ch, i) ==
    IF ch.cancelled[i] THEN cancelledValue ELSE ch.filled[i]

\* checkP2P
checkP2P(o) ==
    [o EXCEPT !.P2P = o.tokenSFeePercentage > 0 \/ o.tokenBFeePercentage > 0]

\* the per-order pre-flight of simulateAndReport: validateInfo, checkP2P and
\* batchGetFilledAndCheckCancelled
preflight(os, ch) ==
    [i \in DOMAIN os |->
       [checkP2P(os[i]) EXCEPT
          !.filledAmountS = filledOrCancelled(ch, i),
          !.valid = os[i].infoValid /\ filledOrCancelled(ch, i) # cancelledValue]]

\* a loop that validates no order
validateNoOrder(os) == os

\* the validateAllOrNone loop of checkRings
validateAllOrNoneAll(os) ==
    [i \in DOMAIN os |-> IF os[i].allOrNone THEN validateAllOrNone(os[i]) ELSE os[i]]

\* a ring loop that reverts every ring it finds invalid, whatever it was before
RECURSIVE revertEveryInvalidRing(_, _, _)
revertEveryInvalidRing(k, rs, os) ==
    IF k > Len(rs) THEN [rings |-> rs, os |-> os, ok |-> TRUE]
    ELSE
    LET reverted(rsAfter, r) ==
            IF r.ok THEN revertEveryInvalidRing(k + 1, rsAfter, r.os)
            ELSE [rings |-> rsAfter, os |-> r.os, ok |-> FALSE]
        checked(ring) ==
            IF ~ring.valid
            THEN reverted([rs EXCEPT ![k] = ring],
                          revertOrderStats(0, ring.participations, os))
            ELSE revertEveryInvalidRing(k + 1, [rs EXCEPT ![k] = ring], os)
    IN checked(checkOrdersValid(rs[k], os))

\* the ring loop of checkRings, from ring k on: the rings, the orders and
\* whether the assertion of revertOrderStats held
RECURSIVE recheckRings(_, _, _)
recheckRings(k, rs, os) ==
    IF k > Len(rs) THEN [rings |-> rs, os |-> os, ok |-> TRUE]
    ELSE
    LET reverted(rsAfter, r) ==
            IF r.ok THEN recheckRings(k + 1, rsAfter, r.os)
            ELSE [rings |-> rsAfter, os |-> r.os, ok |-> FALSE]
        checked(ring) ==
            IF ~ring.valid /\ rs[k].valid
            THEN reverted([rs EXCEPT ![k] = ring],
                          revertOrderStats(0, ring.participations, os))
            ELSE recheckRings(k + 1, [rs EXCEPT ![k] = ring], os)
    IN checked(checkOrdersValid(rs[k], os))

\* whether a transfer item of simulateAndReport takes up a ring's item
sameTransfer(transferItem, ringTransferItem) ==
    /\ transferItem.token = ringTransferItem.token
    /\ transferItem.from = ringTransferItem.from
    /\ transferItem.to = ringTransferItem.to
    /\ transferItem.tokenType = ringTransferItem.tokenType
    /\ transferItem.fromTranche = ringTransferItem.fromTranche
    /\ transferItem.data = ringTransferItem.data

\* transfer items pushed without the merge
pushTransferItems(items, ringItems) == items \o ringItems

\* "Merge transfer items if possible"
RECURSIVE mergeTransferItems(_, _)
mergeTransferItems(items, ringItems) ==
    IF ringItems = << >> THEN items
    ELSE
    LET ringTransferItem == Head(ringItems)
    IN mergeTransferItems(
           IF \A k \in 1..Len(items) : ~sameTransfer(items[k], ringTransferItem)
           THEN Append(items, ringTransferItem)
           ELSE [k \in 1..Len(items) |->
                   IF sameTransfer(items[k], ringTransferItem)
                   THEN [items[k] EXCEPT !.amount = @ + ringTransferItem.amount]
                   ELSE items[k]],
           Tail(ringItems))

\* if (!balancesBefore.isBalanceKnown(...)) balancesBefore.addBalance(...)
addIfUnknown(book, owner, token, tranche, amount) ==
    IF isBalanceKnown(book, owner, token, tranche) THEN book
    ELSE addBalance(book, owner, token, tranche, amount)

\* the first loop of collectReport over the orders, from order i on
RECURSIVE balancesBeforeOfOrders(_, _, _, _)
balancesBeforeOfOrders(i, book, os, bal) ==
    IF i > Len(os) THEN book
    ELSE
    LET o == os[i]
    IN balancesBeforeOfOrders(i + 1,
         addIfUnknown(
             addIfUnknown(
                 addIfUnknown(book, o.owner, o.tokenS, o.trancheS,
                              getTokenSpendable(bal, o.owner, o.tokenS)),
                 o.tokenRecipient, o.tokenB, o.trancheB,
                 getTokenSpendable(bal, o.tokenRecipient, o.tokenB)),
             o.owner, o.feeToken, zeroAddress,
             getTokenSpendable(bal, o.owner, o.feeToken)),
         os, bal)

\* the second loop of collectReport over the orders: the feeRecipient
RECURSIVE balancesBeforeOfFeeRecipient(_, _, _, _)
balancesBeforeOfFeeRecipient(i, book, os, bal) ==
    IF i > Len(os) THEN book
    ELSE
    LET o == os[i]
    IN balancesBeforeOfFeeRecipient(i + 1,
         IF o.tokenTypeS = ERC20
         THEN addIfUnknown(book, feeRecipient, o.tokenS, o.trancheS,
                           bal[<<feeRecipient, o.tokenS>>])
         ELSE book,
         os, bal)

\* feeBalancesBefore of collectReport: one entry per order, token and recipient
RECURSIVE addFeeBalancesBefore(_, _, _)
addFeeBalancesBefore(book, pairs, feeBal) ==
    IF pairs = << >> THEN book
    ELSE
    LET token == Head(pairs)[1]
        recipient == Head(pairs)[2]
    IN addFeeBalancesBefore(
         IF recipient # NoAddress
         THEN addIfUnknown(book, recipient, token, zeroAddress, feeBal[<<token, recipient>>])
         ELSE book,
         Tail(pairs), feeBal)

\* the (token, feeRecipient) pairs of the orders from order i on, in the order
\* collectReport goes through them
RECURSIVE feeBalancePairs(_, _)
feeBalancePairs(i, os) ==
    IF i > Len(os) THEN << >>
    ELSE
    LET o == os[i]
        tokens == <<o.tokenS, o.tokenB, o.feeToken>>
        recipients == <<o.owner, o.walletAddr, feeRecipient, feeHolder>>
    IN [k \in 1..12 |-> <<tokens[((k - 1) \div 4) + 1], recipients[((k - 1) % 4) + 1]>>]
       \o feeBalancePairs(i + 1, os)

\* collectReport
collectReport(os, ch, items, fb, mined, invalid) ==
    LET collected(balancesBefore, feeBalancesBefore) ==
            [reverted |-> FALSE,
             ringMinedEvents |-> mined,
             invalidRingEvents |-> invalid,
             transferItems |-> items,
             feeBalancesBefore |-> feeBalancesBefore,
             feeBalancesAfter |-> addAllBalances(copy(feeBalancesBefore),
                                                 getAllBalances(fb)),
             filledAmountsBefore |-> [i \in DOMAIN os |-> ch.filled[i]],
             filledAmountsAfter |-> [i \in DOMAIN os |->
                                       IF os[i].valid THEN os[i].filledAmountS
                                       ELSE ch.filled[i]],
             balancesBefore |-> balancesBefore,
             balancesAfter |-> applyTransfers(copy(balancesBefore), items)]
    IN collected(balancesBeforeOfFeeRecipient(1,
                    balancesBeforeOfOrders(1, emptyBook, os, ch.balance), os, ch.balance),
                 addFeeBalancesBefore(emptyBook, feeBalancePairs(1, os), ch.feeBalances))

\* the sum of the amounts of the transfer items from the owner in the token
\* and tranche
RECURSIVE amountTransferred(_, _, _, _)
amountTransferred(items, owner, token, tranche) ==
    IF items = << >> THEN 0
    ELSE (IF /\ Head(items).from = owner
             /\ Head(items).token = token
             /\ Head(items).fromTranche = tranche
          THEN Head(items).amount ELSE 0)
         + amountTransferred(Tail(items), owner, token, tranche)

\* the spendables loop of validateRings from order i on: the message of the
\* first assertion that fails, "" when none does
RECURSIVE validateSpendables(_, _, _, _)
validateSpendables(i, os, sp, items) ==
    IF i > Len(os) THEN ""
    ELSE
    LET o == os[i]
        keyS == tokenSpendableS(o)
        keyFee == tokenSpendableFee(o)
    IN IF /\ sp[keyS].initialized
          /\ sp[keyS].initialAmount - sp[keyS].amount
               < amountTransferred(items, o.owner, o.tokenS, o.trancheS)
       THEN "amountSpentS >= amountTransferredS"
       ELSE IF /\ sp[keyFee].initialized
               /\ sp[keyFee].initialAmount - sp[keyFee].amount
                    < amountTransferred(items, o.owner, o.feeToken, zeroAddress)
       THEN "amountSpentFee >= amountTransferredFee"
       ELSE validateSpendables(i + 1, os, sp, items)

\* validateRings: the message of the first assertion that fails, "" when
\* none does
validateRings(os, sp, rep) ==
    LET balances == getAllBalances(rep.balancesAfter)
        spendablesMessage == validateSpendables(1, os, sp, rep.transferItems)
    IN IF \E k \in 1..Len(balances) : balances[k].amount < 0
       THEN "can't sell more tokens than the owner owns"
       ELSE IF spendablesMessage # "" THEN spendablesMessage
       ELSE IF \E i \in DOMAIN os :
                 /\ os[i].allOrNone
                 /\ os[i].filledAmountS # 0
                 /\ os[i].filledAmountS # os[i].amountS
       THEN "allOrNone orders should either be completely filled or not at all."
       ELSE ""

---------------------------------------------------------------------------
(* The batches and chain views the simulation is run on *)

Owners == {"a", "b", "c"}

Tokens == {"X", "Y", "LRC"}

walletAddress == "wallet"

Accounts == Owners \cup {feeRecipient, walletAddress, feeHolder}

\* an ERC20 order without fees, as the deserializer hands it over
Order(owner, tokenS, tokenB, amountS, amountB, hash) ==
    [owner |-> owner, tokenRecipient |-> owner, walletAddr |-> NoAddress,
     tokenS |-> tokenS, tokenB |-> tokenB, feeToken |-> "LRC",
     amountS |-> amountS, amountB |-> amountB, feeAmount |-> 0,
     tokenSFeePercentage |-> 0, tokenBFeePercentage |-> 0,
     walletSplitPercentage |-> 0, waiveFeePercentage |-> 0,
     allOrNone |-> FALSE, P2P |-> FALSE,
     tokenTypeS |-> ERC20, tokenTypeB |-> ERC20, tokenTypeFee |-> ERC20,
     trancheS |-> zeroAddress, trancheB |-> zeroAddress, trancheFee |-> zeroAddress,
     transferDataS |-> NoData, hash |-> hash,
     infoValid |-> TRUE, valid |-> TRUE, filledAmountS |-> 0]

\* the balances of a chain view: those given, 0 elsewhere
balancesOf(given) ==
    [k \in Accounts \X Tokens |-> IF k \in DOMAIN given THEN given[k] ELSE 0]

\* the burn rates of a chain view: those given, 0 elsewhere
burnRatesOf(given) ==
    [t \in Tokens |-> IF t \in DOMAIN given THEN given[t] ELSE 0]

\* a chain view
ChainView(balance, filled, cancelled, burnRates) ==
    [balance |-> balancesOf(balance),
     filled |-> filled,
     cancelled |-> cancelled,
     burnRates |-> burnRatesOf(burnRates),
     canSend |-> [t \in Tokens |-> [ESC |-> "0xa2", destTranche |-> zeroAddress]],
     feeBalances |-> [k \in Tokens \X Accounts |-> 0]]

Amounts == 1..MaxAmount

Funds == 0..MaxAmount

\* one ring of two plain orders: every rate, every spendable of the two
\* sellers, and a first order that may already be filled in part
FillBatches ==
    { [orders |-> <<Order("a", "X", "Y", s1, b1, "h1"), Order("b", "Y", "X", s2, b2, "h2")>>,
       rings |-> << <<1, 2>> >>,
       chain |-> ChainView((<<"a", "X">> :> ax) @@ (<<"b", "Y">> :> by),
                           <<Min(f1, s1), 0>>, <<FALSE, FALSE>>, << >>)] :
        s1 \in Amounts, b1 \in Amounts, s2 \in Amounts, b2 \in Amounts,
        ax \in Funds, by \in {1, MaxAmount}, f1 \in Funds }

\* one ring of two orders that pay matching fees: the first in any of its
\* tokens, with or without a wallet, waived or shared by the miner, and burnt
\* or not
FeeBatches ==
    { [orders |-> <<[Order("a", "X", "Y", MaxAmount, MaxAmount, "h1") EXCEPT
                        !.feeToken = ft, !.feeAmount = fee,
                        !.walletAddr = w[1][1], !.walletSplitPercentage = w[1][2],
                        !.waiveFeePercentage = w[2]],
                    [Order("b", "Y", "X", MaxAmount, MaxAmount, "h2") EXCEPT
                        !.feeAmount = MaxFee, !.waiveFeePercentage = waive2]>>,
       rings |-> << <<1, 2>> >>,
       chain |-> ChainView((<<"a", "X">> :> ax) @@ (<<"a", "LRC">> :> al)
                             @@ (<<"b", "Y">> :> MaxAmount) @@ (<<"b", "LRC">> :> MaxFee),
                           <<0, 0>>, <<FALSE, FALSE>>,
                           [t \in Tokens |-> rate])] :
        ft \in Tokens, fee \in 0..MaxFee, ax \in Funds, al \in {0, MaxFee},
        w \in ({<<NoAddress, 0>>, <<NoAddress, 50>>, <<walletAddress, 50>>} \X {0, 500})
                 \cup {<<<<NoAddress, 50>>, -200>>},
        waive2 \in {0, -800},
        rate \in {0, 500} }

\* one ring of a P2P order and a plain one: fees in tokenS and tokenB, with
\* or without a wallet, burnt at the P2P rate or not
P2PBatches ==
    { [orders |-> <<[Order("a", "X", "Y", s1, b1, "h1") EXCEPT
                        !.tokenSFeePercentage = pS, !.tokenBFeePercentage = pB,
                        !.walletAddr = wallet, !.walletSplitPercentage = 50],
                    Order("b", "Y", "X", MaxAmount, MaxAmount, "h2")>>,
       rings |-> << <<1, 2>> >>,
       chain |-> ChainView((<<"a", "X">> :> ax) @@ (<<"b", "Y">> :> MaxAmount),
                           <<0, 0>>, <<FALSE, FALSE>>,
                           [t \in Tokens |-> rate * burnRateShift])] :
        s1 \in Amounts, b1 \in Amounts, pS \in {0, 500}, pB \in {0, 500},
        wallet \in {NoAddress, walletAddress},
        ax \in Funds, rate \in {0, 500} }

\* two rings over three orders, the second order in both: all-or-none orders,
\* a first order found cancelled or a third found filled, one owner selling
\* through two orders
AllOrNoneBatches ==
    { [orders |-> <<[Order("a", "X", "Y", s1, s1, "h1") EXCEPT !.allOrNone = aon[1]],
                    [Order("b", "Y", "X", MaxAmount, MaxAmount, "h2") EXCEPT
                        !.allOrNone = aon[2]],
                    [Order(owner3, "X", "Y", s3, s3, "h3") EXCEPT !.allOrNone = aon[3]]>>,
       rings |-> << <<1, 2>>, <<3, 2>> >>,
       chain |-> ChainView((<<"a", "X">> :> ax) @@ (<<"b", "Y">> :> MaxAmount)
                             @@ (<<"c", "X">> :> MaxAmount),
                           <<0, 0, IF found = "filled" THEN s3 ELSE 0>>,
                           <<found = "cancelled", FALSE, FALSE>>, << >>)] :
        s1 \in Amounts, s3 \in Amounts,
        aon \in BOOLEAN \X BOOLEAN \X BOOLEAN, owner3 \in {"a", "c"},
        ax \in {1, MaxAmount}, found \in {"open", "cancelled", "filled"} }

\* one ring of three orders whose first owner pays its fee in the token its
\* other order sells
SharedFeeBatches ==
    { [orders |-> <<[Order("a", "X", "Y", MaxAmount, MaxAmount, "h1") EXCEPT
                        !.feeAmount = fee],
                    Order("b", "Y", "LRC", MaxAmount, MaxAmount, "h2"),
                    Order("a", "LRC", "X", s3, MaxAmount, "h3")>>,
       rings |-> << <<1, 2, 3>> >>,
       chain |-> ChainView((<<"a", "X">> :> MaxAmount) @@ (<<"a", "LRC">> :> al)
                             @@ (<<"b", "Y">> :> MaxAmount),
                           <<0, 0, 0>>, <<FALSE, FALSE, FALSE>>, << >>)] :
        fee \in 0..MaxFee, s3 \in Amounts, al \in Funds }

\* one ring whose first order sells a security token the chain may refuse to
\* send, and a second order that is not valid
SecurityTokenBatches ==
    { [orders |-> <<[Order("a", "X", "Y", s1, 1, "h1") EXCEPT
                        !.tokenTypeS = ERC1400, !.trancheS = "t1"],
                    [Order("b", "Y", "X", 1, 1, "h2") EXCEPT
                        !.tokenTypeB = ERC1400, !.trancheB = "t1",
                        !.infoValid = infoValid]>>,
       rings |-> << <<1, 2>> >>,
       chain |-> [ChainView((<<"a", "X">> :> MaxAmount) @@ (<<"b", "Y">> :> MaxAmount),
                            <<0, 0>>, <<FALSE, FALSE>>, << >>)
                    EXCEPT !.canSend["X"] = [ESC |-> esc, destTranche |-> "t1"]]] :
        s1 \in Amounts, esc \in {"0xa2", "0xa3"}, infoValid \in BOOLEAN }

\* one ring of three orders, the first with a waiveFeePercentage of -300:
\* the miner shares with it the fees, multiples of 10, of the other two
WaiveBatches ==
    { [orders |-> <<[Order("a", "X", "Y", s, s, "h1") EXCEPT
                        !.feeAmount = 10 * fee1, !.waiveFeePercentage = -300],
                    [Order("b", "Y", "LRC", s, s, "h2") EXCEPT !.feeAmount = 10 * fee2],
                    [Order("c", "LRC", "X", s, s, "h3") EXCEPT !.feeAmount = 10 * fee3]>>,
       rings |-> << <<1, 2, 3>> >>,
       chain |-> ChainView((<<"a", "X">> :> s) @@ (<<"a", "LRC">> :> 10 * fee1)
                             @@ (<<"b", "Y">> :> s) @@ (<<"b", "LRC">> :> 10 * fee2)
                             @@ (<<"c", "LRC">> :> s + 10 * fee3),
                           <<0, 0, 0>>, <<FALSE, FALSE, FALSE>>, << >>)] :
        s \in Amounts, fee1 \in 0..1, fee2 \in 1..MaxFee, fee3 \in 0..MaxFee }

\* one ring of three plain orders at the same rate: every spendable of the
\* three sellers, so that any of the orders may be the one that limits the ring
ThreeOrderBatches ==
    { [orders |-> <<Order("a", "X", "Y", MaxAmount, MaxAmount, "h1"),
                    Order("b", "Y", "LRC", MaxAmount, b2, "h2"),
                    Order("c", "LRC", "X", MaxAmount, MaxAmount, "h3")>>,
       rings |-> << <<1, 2, 3>> >>,
       chain |-> ChainView((<<"a", "X">> :> ax) @@ (<<"b", "Y">> :> by)
                             @@ (<<"c", "LRC">> :> cl),
                           <<0, 0, 0>>, <<FALSE, FALSE, FALSE>>, << >>)] :
        ax \in Funds, by \in Funds, cl \in Funds, b2 \in {1, MaxAmount} }

\* one ring that may be malformed: of one order, of the same two orders
\* twice (a sub-ring) or five times, with a tokenB or a tokenTypeB that is not
\* the tokenS or tokenTypeS of the next order
MalformedBatches ==
    { [orders |-> <<Order("a", "X", "Y", MaxAmount, MaxAmount, "h1"),
                    Order("b", "Y", "X", MaxAmount, MaxAmount, "h2"),
                    Order("c", "Y", "LRC", MaxAmount, MaxAmount, "h3"),
                    [Order("b", "Y", "X", MaxAmount, MaxAmount, "h4") EXCEPT
                        !.tokenTypeB = ERC1400, !.trancheB = "t1"]>>,
       rings |-> << ring >>,
       chain |-> ChainView((<<"a", "X">> :> ax) @@ (<<"b", "Y">> :> MaxAmount)
                             @@ (<<"c", "Y">> :> MaxAmount),
                           <<0, 0, 0, 0>>, <<FALSE, FALSE, FALSE, FALSE>>, << >>)] :
        ring \in { <<1, 2>>, <<1>>, <<1, 2, 1, 2>>, <<1, 2, 1, 2, 1, 2, 1, 2, 1, 2>>,
                   <<1, 3>>, <<1, 4>> },
        ax \in Funds }

Batches ==
    FillBatches \cup FeeBatches \cup P2PBatches \cup AllOrNoneBatches
      \cup SharedFeeBatches \cup SecurityTokenBatches \cup WaiveBatches
      \cup ThreeOrderBatches \cup MalformedBatches

---------------------------------------------------------------------------
(* simulateAndReport, step by step *)

Init ==
    \E batch \in Batches :
        /\ orders = batch.orders
        /\ ringsInfo = [rings |-> batch.rings, feeRecipient |-> feeRecipient]
        /\ chain = batch.chain
        /\ spendables = [k \in Owners \X Tokens |-> newSpendable]
        /\ rings = [k \in 1..Len(batch.rings) |-> newRing(batch.rings[k])]
        /\ pc = "start"
        /\ pos = 1
        /\ iterations = 0
        /\ transferItems = << >>
        /\ feeBalances = emptyBook
        /\ ringMinedEvents = << >>
        /\ invalidRingEvents = << >>
        /\ ringIndex = 0
        /\ report = << >>
        /\ failed = ""
        /\ calls = 1
        /\ firstReport = << >>
        /\ objects = << >>
        /\ clientBook = 0
        /\ clientCopy = 0
        /\ addBalanceCalls = 0

\* lines 157-168: the orders are validated and their fills are read
Preflight ==
    /\ UNCHANGED <<calls, firstReport, bookVars>>
    /\ pc = "start"
    /\ orders' = preflight(orders, chain)
    /\ pc' = "rings"
    /\ pos' = 1
    /\ UNCHANGED <<ringsInfo, chain, spendables, rings, iterations, transferItems,
                   feeBalances, ringMinedEvents, invalidRingEvents, ringIndex, report,
                   failed>>

\* lines 187-194, for the ring at pos
CalculateRing ==
    /\ UNCHANGED <<calls, firstReport, bookVars>>
    /\ pc = "rings"
    /\ pos <= Len(rings)
    /\ \E c \in {calculateFillAmountAndFee(
                    checkForSubRings(checkOrdersValid(rings[pos], orders), orders),
                    orders, spendables, chain.balance, chain.canSend)} :
       \E adjusted \in {IF c.ring.valid
                        THEN adjustOrderStates(0, c.ring.participations, orders, c.sp)
                        ELSE [os |-> orders, sp |-> c.sp, ok |-> TRUE]} :
          /\ rings' = [rings EXCEPT ![pos] = c.ring]
          /\ orders' = adjusted.os
          /\ spendables' = adjusted.sp
          /\ pos' = IF adjusted.ok /\ pos < Len(rings) THEN pos + 1 ELSE 1
          /\ pc' = IF ~adjusted.ok THEN "failed"
                   ELSE IF pos < Len(rings) THEN "rings" ELSE "checkRings"
          /\ failed' = IF adjusted.ok THEN failed ELSE "adjustOrderState"
    /\ UNCHANGED <<ringsInfo, chain, iterations, transferItems, feeBalances,
                   ringMinedEvents, invalidRingEvents, ringIndex, report>>

\* a loop condition that holds as long as an all-or-none order is not valid
someAllOrNoneInvalid(os, validated) ==
    \E i \in DOMAIN os : os[i].allOrNone /\ ~validated[i].valid

\* a loop condition with the comparison turned round: it holds when the
\* valid status of an all-or-none order did not change
reevaluateRingsOnSameStatus(os, validated) ==
    \E i \in DOMAIN os : os[i].allOrNone /\ validated[i].valid = os[i].valid

\* whether the validateAllOrNone loop of checkRings changed the valid status
\* of an order
reevaluateRings(os, validated) ==
    \E i \in DOMAIN os : os[i].allOrNone /\ validated[i].valid # os[i].valid

\* one iteration of the loop of checkRings
CheckRings ==
    /\ UNCHANGED <<calls, firstReport, bookVars>>
    /\ pc = "checkRings"
    /\ \E validated \in {validateAllOrNoneAll(orders)} :
       \E checked \in {IF reevaluateRings(orders, validated)
                       THEN recheckRings(1, rings, validated)
                       ELSE [rings |-> rings, os |-> validated, ok |-> TRUE]} :
          /\ iterations' = iterations + 1
          /\ orders' = checked.os
          /\ rings' = checked.rings
          /\ pc' = IF ~checked.ok THEN "failed"
                   ELSE IF reevaluateRings(orders, validated) THEN "checkRings"
                   ELSE "payments"
          /\ failed' = IF checked.ok THEN failed ELSE "p.order.filledAmountS >= 0"
    /\ pos' = 1
    /\ UNCHANGED <<ringsInfo, chain, spendables, transferItems, feeBalances,
                   ringMinedEvents, invalidRingEvents, ringIndex, report>>

\* a context.ringIndex that skips a number
skippedRingIndex(index) == index + 2

\* this.context.ringIndex++ of simulateAndReportSingle
nextRingIndex(index) == index + 1

\* lines 200-228, for the ring at pos
SettleRing ==
    /\ UNCHANGED <<calls, firstReport, bookVars>>
    /\ pc = "payments"
    /\ pos <= Len(rings)
    /\ \E paid \in {IF rings[pos].valid
                    THEN doPayments(rings[pos], orders, chain.burnRates, chain.canSend)
                    ELSE [ring |-> rings[pos], ok |-> TRUE]} :
          /\ rings' = [rings EXCEPT ![pos] = paid.ring]
          /\ feeBalances' = IF paid.ring.settled
                            THEN addAllBalances(feeBalances,
                                                getAllBalances(paid.ring.feeBalances))
                            ELSE feeBalances
          /\ ringMinedEvents' =
               IF paid.ring.settled
               THEN Append(ringMinedEvents,
                           [ringIndex |-> ringIndex,
                            ringHash |-> ringHashOf(paid.ring, orders),
                            feeRecipient |-> ringsInfo.feeRecipient,
                            fills |-> generateFills(paid.ring, orders)])
               ELSE ringMinedEvents
          /\ ringIndex' = IF paid.ring.settled THEN nextRingIndex(ringIndex) ELSE ringIndex
          /\ transferItems' = IF paid.ring.settled
                              THEN mergeTransferItems(transferItems, paid.ring.transferItems)
                              ELSE transferItems
          /\ invalidRingEvents' =
               IF rings[pos].valid THEN invalidRingEvents
               ELSE Append(invalidRingEvents, [ringHash |-> ringHashOf(paid.ring, orders)])
          /\ pos' = IF paid.ok /\ pos < Len(rings) THEN pos + 1 ELSE 1
          /\ pc' = IF ~paid.ok THEN "failed"
                   ELSE IF pos < Len(rings) THEN "payments" ELSE "report"
          /\ failed' = IF paid.ok THEN failed ELSE "doPayments"
    /\ UNCHANGED <<orders, ringsInfo, chain, spendables, iterations, report>>

\* line 230
CollectReport ==
    /\ UNCHANGED <<calls, firstReport, bookVars>>
    /\ pc = "report"
    /\ report' = collectReport(orders, chain, transferItems, feeBalances,
                               ringMinedEvents, invalidRingEvents)
    /\ pc' = "validate"
    /\ UNCHANGED <<orders, ringsInfo, chain, spendables, rings, pos, iterations,
                   transferItems, feeBalances, ringMinedEvents, invalidRingEvents,
                   ringIndex, failed>>

\* line 238
ValidateRings ==
    /\ UNCHANGED <<calls, firstReport, bookVars>>
    /\ pc = "validate"
    /\ failed' = validateRings(orders, spendables, report)
    /\ pc' = IF failed' = "" THEN "done" ELSE "failed"
    /\ UNCHANGED <<orders, ringsInfo, chain, spendables, rings, pos, iterations,
                   transferItems, feeBalances, ringMinedEvents, invalidRingEvents,
                   ringIndex, report>>

\* a second call of simulateAndReport on the same context, with the inputs
\* and the chain snapshot of the first: the orders come with Spendables that
\* are not initialized, and the pre-flight sets their valid, P2P and
\* filledAmountS anew
SimulateAgain ==
    /\ pc = "done"
    /\ calls = 1
    /\ calls' = 2
    /\ firstReport' = report
    /\ spendables' = [k \in Owners \X Tokens |-> newSpendable]
    /\ rings' = [k \in 1..Len(ringsInfo.rings) |-> newRing(ringsInfo.rings[k])]
    /\ pc' = "start"
    /\ pos' = 1
    /\ iterations' = 0
    /\ transferItems' = << >>
    /\ feeBalances' = emptyBook
    /\ ringMinedEvents' = << >>
    /\ invalidRingEvents' = << >>
    /\ report' = << >>
    /\ UNCHANGED <<orders, ringsInfo, chain, ringIndex, failed, bookVars>>

Next ==
    \/ Preflight
    \/ CalculateRing
    \/ CheckRings
    \/ SettleRing
    \/ CollectReport
    \/ ValidateRings
    \/ SimulateAgain

Spec == Init /\ [][Next]_vars

---------------------------------------------------------------------------
(* A client of BalanceBook: addBalance calls on a book, a copy() of it,    *)
(* and addBalance calls on either of the two                               *)

\* the variables of the simulator
simulatorVars == <<orders, ringsInfo, chain, spendables, rings, pc, pos, iterations,
                   transferItems, feeBalances, ringMinedEvents, invalidRingEvents,
                   ringIndex, report, failed, calls, firstReport>>

\* the arguments of the addBalance calls: two owners, two tokens, two
\* tranches, an amount of 0
AddBalanceCalls ==
    { [owner |-> "b", token |-> "X", tranche |-> zeroAddress, amount |-> 1],
      [owner |-> "a", token |-> "X", tranche |-> zeroAddress, amount |-> 1],
      [owner |-> "a", token |-> "LRC", tranche |-> zeroAddress, amount |-> 0],
      [owner |-> "a", token |-> "X", tranche |-> "t1", amount |-> 2],
      [owner |-> "b", token |-> "LRC", tranche |-> zeroAddress, amount |-> 2] }

\* a simulator that was given nothing, and a client with a new BalanceBook
BookInit ==
    /\ orders = << >>
    /\ ringsInfo = [rings |-> << >>, feeRecipient |-> feeRecipient]
    /\ chain = ChainView(<< >>, << >>, << >>, << >>)
    /\ spendables = [k \in Owners \X Tokens |-> newSpendable]
    /\ rings = << >>
    /\ pc = "start"
    /\ pos = 1
    /\ iterations = 0
    /\ transferItems = << >>
    /\ feeBalances = emptyBook
    /\ ringMinedEvents = << >>
    /\ invalidRingEvents = << >>
    /\ ringIndex = 0
    /\ report = << >>
    /\ failed = ""
    /\ calls = 1
    /\ firstReport = << >>
    /\ objects = newBalanceBook(<< >>).objects
    /\ clientBook = newBalanceBook(<< >>).this
    /\ clientCopy = 0
    /\ addBalanceCalls = 0

\* BalanceBook.addBalance, on the book or on its copy
AddBalance ==
    /\ addBalanceCalls < MaxAddBalanceCalls
    /\ \E b \in AddBalanceCalls : \E this \in {clientBook, clientCopy} \ {0} :
          objects' = addBalanceTo(objects, this, b.owner, b.token, b.tranche, b.amount)
    /\ addBalanceCalls' = addBalanceCalls + 1
    /\ UNCHANGED <<clientBook, clientCopy, simulatorVars>>

\* BalanceBook.copy
Copy ==
    /\ clientCopy = 0
    /\ \E copied \in {copyOf(objects, clientBook)} :
          /\ objects' = copied.objects
          /\ clientCopy' = copied.this
    /\ UNCHANGED <<clientBook, addBalanceCalls, simulatorVars>>

BookNext ==
    \/ AddBalance
    \/ Copy

BookSpec == BookInit /\ [][BookNext]_vars

---------------------------------------------------------------------------
(* Properties of the simulation *)

\* the participation before the i-th (from 1) of a ring
prevOf(ring, i) ==
    ring.participations[prevIndexOf(i - 1, Len(ring.participations)) + 1]

\* what the transfers of a ring send to the feeHolder in a token
sentToFeeHolder(ring, token) ==
    getBalance(applyTransfers(emptyBook, ring.transferItems), feeHolder, token, zeroAddress)

\* whether collectReport has built the report
reported ==
    \/ pc \in {"validate", "done"}
    \/ pc = "failed" /\ failed \notin {"adjustOrderState", "p.order.filledAmountS >= 0",
                                       "doPayments"}

\* C1 - Ring closure: in every ring that calculateFillAmountAndFee left valid,
\* and so in every ring doPayments settled, every participation p with its
\* cyclic predecessor prevP has fillAmountS - feeAmountS = prevP.fillAmountB.
RingClosure ==
    \A k \in DOMAIN rings :
        rings[k].valid \/ rings[k].settled =>
            \A i \in DOMAIN rings[k].participations :
                rings[k].participations[i].fillAmountS
                    - rings[k].participations[i].feeAmountS
                  = prevOf(rings[k], i).fillAmountB

\* a settled ring with a participation that pays a fee in tokenS
RingClosureWitness ==
    \E k \in DOMAIN rings :
        /\ rings[k].settled
        /\ \E i \in DOMAIN rings[k].participations :
              /\ rings[k].participations[i].feeAmountS > 0
              /\ prevOf(rings[k], i).fillAmountB > 0

\* C2 - All-or-none globality: when simulateAndReport reaches validateRings,
\* every order with allOrNone has a filledAmountS of 0 or of amountS.
AllOrNoneGlobality ==
    pc = "validate" =>
        \A i \in DOMAIN orders :
            orders[i].allOrNone => orders[i].filledAmountS \in {0, orders[i].amountS}

\* C3 - The loop of checkRings ends after at most |orders| + 1 iterations:
\* at most |orders| of them are followed by another one.
CheckRingsTerminates ==
    /\ iterations <= Len(orders) + 1
    /\ pc = "checkRings" => iterations <= Len(orders)

\* the loop of checkRings has ended after |orders| + 1 iterations
CheckRingsTerminatesWitness ==
    pc = "payments" /\ iterations = Len(orders) + 1

\* C3 as stated - the loop of checkRings ends after at most |orders|
\* iterations
CheckRingsWithinOrders == iterations <= Len(orders)

SpendableSafety ==
    \A k \in DOMAIN rings :
        rings[k].valid \/ rings[k].settled =>
            \A i \in DOMAIN rings[k].participations :
                LET p == rings[k].participations[i]
                IN IF orders[p.order].tokenS = orders[p.order].feeToken
                   THEN p.fillAmountS + p.splitS + p.feeAmount <= p.ringSpendableS
                   ELSE /\ p.fillAmountS + p.splitS <= p.ringSpendableS
                        /\ p.feeAmount <= p.ringSpendableFee

\* a settled ring with an order that sells all it can spend of tokenS and
\* pays as fee all it can spend of another feeToken
SpendableSafetyWitness ==
    \E k \in DOMAIN rings :
        /\ rings[k].settled
        /\ \E i \in DOMAIN rings[k].participations :
              LET p == rings[k].participations[i]
              IN /\ orders[p.order].tokenS # orders[p.order].feeToken
                 /\ p.fillAmountS > 0
                 /\ p.fillAmountS + p.splitS = p.ringSpendableS
                 /\ p.feeAmount > 0
                 /\ p.feeAmount = p.ringSpendableFee

\* C6 - Fill bounds: every participation of a ring that is valid after
\* calculateFillAmountAndFee has fillAmountS + splitS <= amountS,
\* fillAmountB <= amountB and feeAmount <= order.feeAmount, whatever part of
\* the order was filled before and whatever its owner can spend.
FillBounds ==
    \A k \in DOMAIN rings :
        rings[k].valid =>
            \A i \in DOMAIN rings[k].participations :
                LET p == rings[k].participations[i]
                IN /\ p.fillAmountS + p.splitS <= orders[p.order].amountS
                   /\ p.fillAmountB <= orders[p.order].amountB
                   /\ p.feeAmount <= orders[p.order].feeAmount

\* a valid ring fills all that was left of an order filled in part before,
\* out of a spendable above it
FillBoundsWitness ==
    \E k \in DOMAIN rings :
        /\ rings[k].valid
        /\ \E i \in DOMAIN rings[k].participations :
              LET p == rings[k].participations[i]
              IN /\ chain.filled[p.order] > 0
                 /\ p.fillAmountS > 0
                 /\ p.fillAmountS + p.splitS = orders[p.order].amountS - chain.filled[p.order]
                 /\ p.ringSpendableS > orders[p.order].amountS

\* C7 - Fee-holder mirror: for every settled ring and every token, what the
\* transfers of the ring send to the feeHolder in the token is the sum of the
\* credits in the token the ring recorded in its feeBalances.
FeeHolderMirror ==
    \A k \in DOMAIN rings :
        rings[k].settled =>
            \A token \in Tokens :
                sentToFeeHolder(rings[k], token)
                  = totalOfToken(getAllBalances(rings[k].feeBalances), token)

\* C8 - Burn match: for every settled ring and every token, the burn expected
\* from the fee amounts of the participations is what the feeBalances of the
\* ring hold for the zero address in the token.
BurnMatch ==
    \A k \in DOMAIN rings :
        rings[k].settled =>
            \A token \in Tokens :
                getBalance(expectedTotalBurned(0, emptyBook, rings[k], orders,
                                               chain.burnRates),
                           zeroAddress, token, zeroAddress)
                  = getBalance(rings[k].feeBalances, zeroAddress, token, zeroAddress)

\* C9 - Fee mode exclusivity: every participation of an order that is not
\* P2P, in a settled ring as in any other, has feeAmountS = 0 and at most one
\* of feeAmount and feeAmountB above 0; both are 0 when the fill owes no fee.
FeeModeExclusivity ==
    \A k \in DOMAIN rings :
        \A i \in DOMAIN rings[k].participations :
            LET p == rings[k].participations[i]
            IN ~orders[p.order].P2P =>
                  /\ p.feeAmountS = 0
                  /\ ~(p.feeAmount > 0 /\ p.feeAmountB > 0)

\* a settled ring with a participation that pays its fee in tokenB and one
\* that pays it in feeToken
FeeModeExclusivityWitness ==
    \E k \in DOMAIN rings :
        /\ rings[k].settled
        /\ \E i \in DOMAIN rings[k].participations :
              /\ ~orders[rings[k].participations[i].order].P2P
              /\ rings[k].participations[i].feeAmountB > 0
        /\ \E i \in DOMAIN rings[k].participations :
              /\ ~orders[rings[k].participations[i].order].P2P
              /\ rings[k].participations[i].feeAmount > 0

\* C9 as stated - every participation of an order that is not P2P in a
\* settled ring has feeAmountS = 0 and exactly one of feeAmount and
\* feeAmountB other than 0
FeeModeExactlyOne ==
    \A k \in DOMAIN rings :
        rings[k].settled =>
            \A i \in DOMAIN rings[k].participations :
                LET p == rings[k].participations[i]
                IN ~orders[p.order].P2P =>
                      /\ p.feeAmountS = 0
                      /\ (p.feeAmount # 0) # (p.feeAmountB # 0)

\* the wallet percentages payFeesAndBurn is called with
WalletSplitPercentages == {0, 1, 50, 99, 100}

\* the three fee amounts of a participation, each with its token
feeAmountsOf(p, o) ==
    {<<o.feeToken, p.feeAmount>>, <<o.tokenS, p.feeAmountS>>, <<o.tokenB, p.feeAmountB>>}

\* C10 - Rebate bounds: for each of the three fee amounts of a participation
\* of a ring to settle, the rebate payFeesAndBurn returns is at least 0 and at
\* most the amount, for the waiveFeePercentage of the order, the burn rates of
\* the chain view and every walletSplitPercentage.
RebateBounds ==
    pc = "payments" =>
        \A k \in DOMAIN rings :
            rings[k].valid =>
                \A i \in DOMAIN rings[k].participations :
                    LET p == rings[k].participations[i]
                    IN \A fee \in feeAmountsOf(p, orders[p.order]) :
                          \A walletSplitPercentage \in
                                WalletSplitPercentages \cup {walletPercentageOf(orders[p.order])} :
                             LET paid == payFeesAndBurn(rings[k], orders, p, fee[1], fee[2],
                                                        walletSplitPercentage, chain.burnRates)
                             IN paid.ok /\ 0 <= paid.rebate /\ paid.rebate <= fee[2]

\* a ring to settle whose fee is in part rebated and in part paid
RebateBoundsWitness ==
    /\ pc = "payments"
    /\ \E k \in DOMAIN rings :
          /\ rings[k].valid
          /\ \E i \in DOMAIN rings[k].participations :
                LET p == rings[k].participations[i]
                    paid == payFeesAndBurn(rings[k], orders, p, orders[p.order].feeToken,
                                           p.feeAmount, walletPercentageOf(orders[p.order]),
                                           chain.burnRates)
                IN /\ p.feeAmount > 1
                   /\ paid.rebate > 0
                   /\ paid.rebate < p.feeAmount

\* a report with the ringIndex of its ring mined events taken out
withoutRingIndex(rep) ==
    [rep EXCEPT !.ringMinedEvents =
        [k \in DOMAIN rep.ringMinedEvents |->
            [ringHash |-> rep.ringMinedEvents[k].ringHash,
             feeRecipient |-> rep.ringMinedEvents[k].feeRecipient,
             fills |-> rep.ringMinedEvents[k].fills]]]

ringsThatAre(valid) ==
    SelectSeq([k \in DOMAIN rings |-> k], LAMBDA k : rings[k].valid = valid)

\* the hashes of the orders of a ring
orderHashesOf(ring) ==
    [i \in DOMAIN ring.participations |-> orders[ring.participations[i].order].hash]

\* the sum over the rings that are valid of what each holds of a token, in
\* its transfer items or in its fee balances
RECURSIVE totalOfValidRings(_, _, _)
totalOfValidRings(k, token, inFeeBalances) ==
    IF k > Len(rings) THEN 0
    ELSE (IF ~rings[k].valid THEN 0
          ELSE IF inFeeBalances
               THEN totalOfToken(getAllBalances(rings[k].feeBalances), token)
               ELSE totalOfToken(rings[k].transferItems, token))
         + totalOfValidRings(k + 1, token, inFeeBalances)

\* whether the loop over the rings that makes the payments has ended
settlementDone == pc = "report" \/ reported

\* C12 - Every ring of the input yields exactly one event: the rings that are
\* valid after checkRings yield the ring mined events, the others the invalid
\* ring events with their ringHash, each in the order of the rings; a ring that
\* is not valid has no transfer item and no fee balance, and the transfer items
\* and fee balances of the call are those of the valid rings.
OneEventPerRing ==
    settlementDone =>
        /\ Len(ringMinedEvents) + Len(invalidRingEvents) = Len(rings)
        /\ Len(ringMinedEvents) = Len(ringsThatAre(TRUE))
        /\ \A j \in DOMAIN ringMinedEvents :
              ringMinedEvents[j].ringHash = orderHashesOf(rings[ringsThatAre(TRUE)[j]])
        /\ \A j \in DOMAIN invalidRingEvents :
              invalidRingEvents[j].ringHash = orderHashesOf(rings[ringsThatAre(FALSE)[j]])
        /\ \A k \in DOMAIN rings :
              /\ rings[k].settled = rings[k].valid
              /\ ~rings[k].valid =>
                    rings[k].transferItems = << >> /\ rings[k].feeBalances = emptyBook
        /\ \A token \in Tokens :
              /\ totalOfToken(transferItems, token) = totalOfValidRings(1, token, FALSE)
              /\ totalOfToken(getAllBalances(feeBalances), token)
                    = totalOfValidRings(1, token, TRUE)

\* a call that settled one ring, with a fee, and found another ring, whose
\* fills were calculated, not valid
OneEventPerRingWitness ==
    /\ reported
    /\ Len(report.ringMinedEvents) = 1
    /\ Len(report.invalidRingEvents) = 1
    /\ \E k \in DOMAIN rings :
          ~rings[k].valid /\ rings[k].participations[1].fillAmountS > 0
    /\ Len(report.transferItems) > 0

\* the sum of the amounts of the transfers of a list that have the token,
\* from, to, tokenType, fromTranche and data of an item
RECURSIVE totalOfTransfer(_, _)
totalOfTransfer(items, item) ==
    IF items = << >> THEN 0
    ELSE (IF sameTransfer(Head(items), item) THEN Head(items).amount ELSE 0)
         + totalOfTransfer(Tail(items), item)

\* the same sum over the transfers of the settled rings from ring k on
RECURSIVE totalOfSettledRings(_, _)
totalOfSettledRings(k, item) ==
    IF k > Len(rings) THEN 0
    ELSE (IF rings[k].settled THEN totalOfTransfer(rings[k].transferItems, item) ELSE 0)
         + totalOfSettledRings(k + 1, item)

\* C13 - Transfer merging: no two transfer items of the call share the same
\* (token, from, to, tokenType, fromTranche, data), each item's amount is the
\* sum of the transfers with that tuple of the settled rings, and every
\* transfer of a settled ring has its tuple among the items.
TransferMerging ==
    settlementDone =>
        /\ \A j, k \in DOMAIN transferItems :
              sameTransfer(transferItems[j], transferItems[k]) => j = k
        /\ \A j \in DOMAIN transferItems :
              transferItems[j].amount = totalOfSettledRings(1, transferItems[j])
        /\ \A r \in DOMAIN rings : rings[r].settled =>
              \A i \in DOMAIN rings[r].transferItems :
                 \E j \in DOMAIN transferItems :
                    sameTransfer(transferItems[j], rings[r].transferItems[i])

\* two settled rings with a transfer of the same tuple, merged into one item
TransferMergingWitness ==
    /\ reported
    /\ \E r1, r2 \in DOMAIN rings :
          /\ r1 < r2 /\ rings[r1].settled /\ rings[r2].settled
          /\ \E i \in DOMAIN rings[r1].transferItems :
             \E j \in DOMAIN rings[r2].transferItems :
             \E k \in DOMAIN report.transferItems :
                /\ sameTransfer(rings[r1].transferItems[i], rings[r2].transferItems[j])
                /\ sameTransfer(report.transferItems[k], rings[r1].transferItems[i])
                /\ report.transferItems[k].amount
                     >= rings[r1].transferItems[i].amount + rings[r2].transferItems[j].amount

\* what adjustOrderStates takes off the Spendable of a key for the
\* participations from index i on
RECURSIVE spentOf(_, _, _)
spentOf(i, ps, key) ==
    IF i >= Len(ps) THEN 0
    ELSE LET p == ps[i + 1]
             o == orders[p.order]
         IN (IF tokenSpendableS(o) = key THEN p.fillAmountS + p.splitS ELSE 0)
            + (IF tokenSpendableFee(o) = key THEN p.feeAmount ELSE 0)
            + spentOf(i + 1, ps, key)

\* the ring at pos and the spendables as calculateFillAmountAndFee leaves them,
\* before adjustOrderStates
calculatedRing ==
    calculateFillAmountAndFee(
        checkForSubRings(checkOrdersValid(rings[pos], orders), orders),
        orders, spendables, chain.balance, chain.canSend)

\* whether this step calculates a valid ring and adjusts its orders
adjustsOrderStates == pc = "rings" /\ pc' # "failed" /\ rings'[pos].valid

\* C14 - revertOrderStats after adjustOrderStates: it gives every order of the
\* ring the filledAmountS it had before adjustOrderStates, and it leaves the
\* spendable amounts as adjustOrderStates left them, lower than before by the
\* fillAmountS + splitS and feeAmount of the ring.
RevertRestoresFilledOnly ==
    [][adjustsOrderStates =>
          LET ps == rings'[pos].participations
              reverted == revertOrderStats(0, ps, orders')
          IN /\ reverted.ok
             /\ reverted.os = orders
             /\ \A key \in DOMAIN spendables :
                   spendables'[key].amount
                     = calculatedRing.sp[key].amount - spentOf(0, ps, key)]_vars

\* a ring that checkRings reverted: its order has again the filledAmountS of
\* the chain, and the Spendable it sells from is still lower than the balance
RevertRestoresFilledOnlyWitness ==
    /\ pc = "payments"
    /\ \E k \in DOMAIN rings :
          /\ ~rings[k].valid
          /\ \E i \in DOMAIN rings[k].participations :
                LET p == rings[k].participations[i]
                    o == orders[p.order]
                IN /\ p.fillAmountS > 0
                   /\ o.filledAmountS = filledOrCancelled(chain, p.order)
                   /\ spendables[tokenSpendableS(o)].initialized
                   /\ spendables[tokenSpendableS(o)].amount
                        < chain.balance[tokenSpendableS(o)]

\* the statement with the spendable amounts restored as well
RevertRestoresSpendables ==
    [][adjustsOrderStates =>
          \A key \in DOMAIN spendables :
             spendables'[key].amount = calculatedRing.sp[key].amount]_vars

\* whether a ring is the one of the waive scenario: three orders, the first
\* with a waiveFeePercentage of -300 and the others with 0, no wallet and no
\* burn
waiveScenario(ring) ==
    /\ Len(ring.participations) = 3
    /\ ring.minerFeesToOrdersPercentage = 300
    /\ orders[ring.participations[1].order].waiveFeePercentage = -300
    /\ \A i \in 2..3 : orders[ring.participations[i].order].waiveFeePercentage = 0
    /\ \A i \in 1..3 : orders[ring.participations[i].order].walletAddr = NoAddress
    /\ \A t \in Tokens : chain.burnRates[t] = 0

\* C15 - Waive distribution: in a settled ring of three orders A, B, C where A
\* has waiveFeePercentage -300 and B and C have 0, the miner fee on B's fee and
\* the miner fee on C's fee are each split 70/30 between the miner's
\* feeRecipient and A, and A pays no miner fee.
WaiveDistribution ==
    \A k \in DOMAIN rings :
        rings[k].settled /\ waiveScenario(rings[k]) =>
            LET ps == rings[k].participations
                A == orders[ps[1].order]
                token == A.feeToken
                fees == ps[2].feeAmount + ps[3].feeAmount
            IN /\ 10 * getBalance(rings[k].feeBalances, feeRecipient, token, zeroAddress)
                    = 7 * fees
               /\ 10 * getBalance(rings[k].feeBalances, A.owner, token, zeroAddress)
                    = 3 * fees
               /\ ps[1].rebateFee = ps[1].feeAmount

\* the scenario settled with a fee paid by B and a fee paid by C
WaiveDistributionWitness ==
    /\ reported
    /\ \E k \in DOMAIN rings :
          /\ rings[k].settled /\ waiveScenario(rings[k])
          /\ rings[k].participations[1].feeAmount > 0
          /\ rings[k].participations[2].feeAmount > 0
          /\ rings[k].participations[3].feeAmount > 0

\* the scenario with A credited its share of B's fee only
WaiveDistributionOfOneFee ==
    \A k \in DOMAIN rings :
        rings[k].settled /\ waiveScenario(rings[k]) =>
            LET ps == rings[k].participations
                A == orders[ps[1].order]
            IN 10 * getBalance(rings[k].feeBalances, A.owner, A.feeToken, zeroAddress)
                 = 3 * ps[2].feeAmount

CopyRoundTrip ==
    [][/\ clientCopy = 0 /\ clientCopy' # 0 =>
             /\ getAllBalances(getData(objects', clientCopy'))
                  = getAllBalances(getData(objects, clientBook))
             /\ getData(objects', clientCopy') = copy(getData(objects, clientBook))
             /\ getData(objects', clientBook) = getData(objects, clientBook)
       /\ clientCopy # 0 /\ addBalanceCalls' # addBalanceCalls =>
             \E b \in AddBalanceCalls :
                LET added(this) ==
                        getData(objects', this)
                          = addBalance(getData(objects, this),
                                       b.owner, b.token, b.tranche, b.amount)
                    kept(this) == getData(objects', this) = getData(objects, this)
                IN \/ added(clientBook) /\ kept(clientCopy)
                   \/ added(clientCopy) /\ kept(clientBook)]_vars

\* a copy of a book with two entries or more, and an entry both books have
\* with an amount that an addBalance made differ
CopyRoundTripWitness ==
    /\ clientCopy # 0
    /\ Len(getAllBalances(getData(objects, clientCopy))) >= 2
    /\ \E b \in AddBalanceCalls :
          /\ isBalanceKnown(getData(objects, clientBook), b.owner, b.token, b.tranche)
          /\ isBalanceKnown(getData(objects, clientCopy), b.owner, b.token, b.tranche)
          /\ getBalance(getData(objects, clientBook), b.owner, b.token, b.tranche)
               # getBalance(getData(objects, clientCopy), b.owner, b.token, b.tranche)

\* the (owner, token, tranche) of the entries of a list of balances, in its
\* order
keysOf(balances) ==
    [i \in 1..Len(balances) |->
        <<balances[i].owner, balances[i].token, balances[i].tranche>>]

\* the entries of a list of balances
entriesOf(balances) == {balances[i] : i \in 1..Len(balances)}

\* the place of a key among the strings used as keys, in the order of strings
placeOf ==
    ("a" :> 1) @@ ("b" :> 2) @@ ("LRC" :> 1) @@ ("X" :> 2)
      @@ (zeroAddress :> 1) @@ ("t1" :> 2)

\* whether a key triple comes before another in the order of (owner, token,
\* tranche)
comesBefore(k1, k2) ==
    \/ placeOf[k1[1]] < placeOf[k2[1]]
    \/ k1[1] = k2[1] /\ placeOf[k1[2]] < placeOf[k2[2]]
    \/ k1[1] = k2[1] /\ k1[2] = k2[2] /\ placeOf[k1[3]] < placeOf[k2[3]]

\* C18 - BalanceBook iteration order: getAllBalances lists the entries in the
\* order in which addBalance created their owner, then their token under the
\* owner, then their tranche under the token.  An addBalance keeps the order
\* of the entries there were, changes nothing in the list of keys when the
\* entry exists, and puts the entry of a new owner last.
CreationOrderIteration ==
    [][addBalanceCalls' # addBalanceCalls =>
          \E b \in AddBalanceCalls : \E this \in {clientBook, clientCopy} \ {0} :
             LET before == keysOf(getAllBalances(getData(objects, this)))
                 after == keysOf(getAllBalances(getData(objects', this)))
                 key == <<b.owner, b.token, b.tranche>>
                 others(keys) == SelectSeq(keys, LAMBDA k : k # key)
             IN /\ getData(objects', this)
                     = addBalance(getData(objects, this),
                                  b.owner, b.token, b.tranche, b.amount)
                /\ others(after) = others(before)
                /\ (\E i \in DOMAIN before : before[i] = key) => after = before
                /\ (\A i \in DOMAIN before : before[i][1] # b.owner) =>
                      after = Append(before, key)]_vars

\* a book and its copy that hold the same balances and list them in
\* different orders
CreationOrderIterationWitness ==
    /\ clientCopy # 0
    /\ entriesOf(getAllBalances(getData(objects, clientBook)))
         = entriesOf(getAllBalances(getData(objects, clientCopy)))
    /\ getAllBalances(getData(objects, clientBook))
         # getAllBalances(getData(objects, clientCopy))

\* the entries sorted by (owner, token, tranche), and two books with the same
\* balances listing them in the same order
SortedIteration ==
    /\ \A this \in {clientBook, clientCopy} \ {0} :
          LET keys == keysOf(getAllBalances(getData(objects, this)))
          IN \A i, j \in DOMAIN keys : i < j => comesBefore(keys[i], keys[j])
    /\ clientCopy # 0
       /\ entriesOf(getAllBalances(getData(objects, clientBook)))
            = entriesOf(getAllBalances(getData(objects, clientCopy)))
       => getAllBalances(getData(objects, clientBook))
            = getAllBalances(getData(objects, clientCopy))

\* whether checkRings has returned
checkRingsReturned == pc \in {"payments", "report", "validate", "done"}

\* C19 - After checkRings returns, a ring that is still valid holds valid
\* orders only, and none of its allOrNone orders has filledAmountS < amountS.
ValidRingsHoldValidOrders ==
    checkRingsReturned =>
        \A k \in DOMAIN rings : rings[k].valid =>
            \A i \in DOMAIN rings[k].participations :
                LET o == orders[rings[k].participations[i].order]
                IN o.valid /\ (o.allOrNone => ~(o.filledAmountS < o.amountS))

\* checkRings returned after it turned a ring invalid, with a ring still valid
\* that holds an allOrNone order
ValidRingsHoldValidOrdersWitness ==
    /\ pc = "payments"
    /\ iterations >= 2
    /\ \E k \in DOMAIN rings :
          /\ ~rings[k].valid /\ rings[k].participations[1].fillAmountS > 0
    /\ \E k \in DOMAIN rings :
          /\ rings[k].valid
          /\ \E i \in DOMAIN rings[k].participations :
                orders[rings[k].participations[i].order].allOrNone

\* C20 - In the loop of checkRings, an iteration that asks for another one
\* turns at least one valid order invalid, and no iteration turns an order or
\* a ring that is not valid into a valid one.
CheckRingsOnlyInvalidates ==
    [][pc = "checkRings" =>
          /\ pc' = "checkRings" =>
                \E i \in DOMAIN orders : orders[i].valid /\ ~orders'[i].valid
          /\ \A i \in DOMAIN orders : ~orders[i].valid => ~orders'[i].valid
          /\ \A k \in DOMAIN rings : ~rings[k].valid => ~rings'[k].valid]_vars

\* the loop of checkRings about to run a third time, with an allOrNone order
\* and a ring that are not valid
CheckRingsOnlyInvalidatesWitness ==
    /\ pc = "checkRings"
    /\ iterations = 2
    /\ \E i \in DOMAIN orders : orders[i].allOrNone /\ ~orders[i].valid
    /\ \E k \in DOMAIN rings : ~rings[k].valid

\* the ring at pos as checkOrdersValid and checkForSubRings leave it
checkedRing == checkForSubRings(checkOrdersValid(rings[pos], orders), orders)

\* whether the ring at pos is about to have its fills calculated
calculatesFills == pc = "rings" /\ pos <= Len(rings) /\ checkedRing.valid

\* the participations of the ring at pos after setMaxFillAmounts and the two
\* resize sweeps of calculateFillAmountAndFee (lines 150-163)
resizedParticipations ==
    LET ringSize == Len(checkedRing.participations)
        m == setMaxFillAmountsAll(0, checkedRing.participations, orders, spendables,
                                  chain.balance)
        r == resizeFirstSweep(ringSize - 1, m.ps, orders, 0)
    IN [once |-> r.ps,
        twice |-> resizeSecondSweep(ringSize - 1, r.ps, orders, r.smallest)]

\* whether a further resize of the participations would change nothing
resizesNothing(ps) ==
    \A i \in 0..(Len(ps) - 1) :
        ps[prevIndexOf(i, Len(ps)) + 1].fillAmountB
          <= postFeeFillAmountS(ps[i + 1], orders[ps[i + 1].order])

\* the product, from participation i on, of what the orders sell, after the
\* fee in tokenS (ofS), or of what they buy; the percentages of the orders
\* are multiples of 100, and the products are taken in tenths
RECURSIVE productOfAmounts(_, _, _)
productOfAmounts(i, ps, ofS) ==
    IF i >= Len(ps) THEN 1
    ELSE LET o == orders[ps[i + 1].order]
         IN (IF ofS THEN o.amountS * ((feePercentageBase - o.tokenSFeePercentage) \div 100)
             ELSE o.amountB * (feePercentageBase \div 100))
            * productOfAmounts(i + 1, ps, ofS)

\* whether the rates of the orders of a ring match: around the ring the
\* orders sell, after their fees in tokenS, at least what they ask for
ratesMatch(ps) == productOfAmounts(0, ps, TRUE) >= productOfAmounts(0, ps, FALSE)

\* C21 - Two resize sweeps suffice for a ring whose rates match: after the
\* two sweeps of calculateFillAmountAndFee every pair (p, prevP) of such a
\* ring has prevP.fillAmountB <= postFeeFillAmountS(p).  A ring with a pair
\* that a further sweep would still resize is not valid when
\* calculateFillAmountAndFee returns.
TwoSweepsSufficeWhenRatesMatch ==
    calculatesFills =>
        LET twice == resizedParticipations.twice
        IN /\ ratesMatch(checkedRing.participations) => resizesNothing(twice)
           /\ ~resizesNothing(twice) => ~calculatedRing.ring.valid

\* a ring whose rates match and whose second sweep resized a participation
TwoSweepsSufficeWhenRatesMatchWitness ==
    /\ calculatesFills
    /\ ratesMatch(checkedRing.participations)
    /\ resizedParticipations.twice # resizedParticipations.once
    /\ calculatedRing.ring.valid

\* the statement for every ring, whatever its rates
TwoSweepsSuffice ==
    calculatesFills => resizesNothing(resizedParticipations.twice)

\* values of tokenSFeePercentage from 0 to feePercentageBase
TokenSFeePercentages == {0, 1, 250, 333, 500, 999, feePercentageBase}

\* C22 - The resize rule uses postFeeFillAmountS = fillAmountS - feeAmountS
\* with feeAmountS = fillAmountS * tokenSFeePercentage / feePercentageBase
\* truncated after the multiplication: the fee is rounded down, and what is
\* left of fillAmountS is rounded up.  It holds for the participations that
\* resize is given, with every percentage from 0 to feePercentageBase.
PostFeeFillAmountSRoundsFeeDown ==
    calculatesFills =>
        LET once == resizedParticipations.once
        IN
        \A i \in DOMAIN once :
        \A percentage \in TokenSFeePercentages :
            LET p == once[i]
                o == [orders[p.order] EXCEPT !.tokenSFeePercentage = percentage]
                feeAmountS == (p.fillAmountS * percentage) \div feePercentageBase
            IN /\ postFeeFillAmountS(p, o) = p.fillAmountS - feeAmountS
               /\ postFeeFillAmountS(p, o) * feePercentageBase
                    >= p.fillAmountS * (feePercentageBase - percentage)
               /\ postFeeFillAmountS(p, o) * feePercentageBase
                    < p.fillAmountS * (feePercentageBase - percentage) + feePercentageBase

\* a ring with a fee in tokenS whose first sweep resized a participation to
\* a postFeeFillAmountS above the truncated share of fillAmountS
PostFeeFillAmountSRoundsFeeDownWitness ==
    /\ calculatesFills
    /\ \E i \in 0..(Len(resizedParticipations.once) - 1) :
          LET ps == resizedParticipations.once
              p == ps[i + 1]
              o == orders[p.order]
          IN /\ o.tokenSFeePercentage > 0
             /\ postFeeFillAmountS(p, o) > postFeeShareOfFillAmountS(p, o)
             /\ ps[prevIndexOf(i, Len(ps)) + 1].fillAmountB = postFeeFillAmountS(p, o)

\* postFeeFillAmountS as the truncated share of fillAmountS
PostFeeFillAmountSIsTruncatedShare ==
    calculatesFills =>
        \A i \in DOMAIN resizedParticipations.once :
        \A percentage \in TokenSFeePercentages :
            LET p == resizedParticipations.once[i]
                o == [orders[p.order] EXCEPT !.tokenSFeePercentage = percentage]
            IN postFeeFillAmountS(p, o) = postFeeShareOfFillAmountS(p, o)

\* C23 - Whenever a ring is valid after checkOrdersValid and checkForSubRings
\* it has between 2 and 8 participations, every order in it is valid, the
\* tokenS and tokenTypeS of every order are the tokenB and tokenTypeB of the
\* order before it (indices mod n), and no two of its orders share tokenS.
CheckedRingIsWellFormed ==
    pc = "rings" /\ pos <= Len(rings) /\ checkedRing.valid =>
        LET ps == checkedRing.participations
            n == Len(ps)
            order(i) == orders[ps[((i + n) % n) + 1].order]
        IN /\ n >= 2 /\ n <= 8
           /\ \A i \in 0..(n - 1) :
                 /\ order(i).valid
                 /\ order(i).tokenS = order(i - 1).tokenB
                 /\ order(i).tokenTypeS = order(i - 1).tokenTypeB
           /\ \A i, j \in 0..(n - 1) : i # j => order(i).tokenS # order(j).tokenS

\* a ring of three orders found valid by the two checks
CheckedRingIsWellFormedWitness ==
    /\ pc = "rings" /\ pos <= Len(rings)
    /\ checkedRing.valid
    /\ Len(checkedRing.participations) = 3

\* C24 - Reservations do not outlive a ring's fill computation: when
\* calculateFillAmountAndFee returns, for a ring that ends valid, that is
\* invalidated part-way or that was not valid to begin with, the reserved
\* amount of the Spendables of tokenS and of feeToken of every order of the
\* ring is zero.
ReservationsAreReset ==
    pc = "rings" /\ pos <= Len(rings) =>
        LET calculated == calculatedRing
        IN \A i \in DOMAIN calculated.ring.participations :
              LET o == orders[calculated.ring.participations[i].order]
              IN /\ calculated.sp[tokenSpendableS(o)].reserved = 0
                 /\ calculated.sp[tokenSpendableFee(o)].reserved = 0

\* a ring invalidated by calculateFees after amounts of tokenS were reserved
ReservationsAreResetWitness ==
    /\ calculatesFills
    /\ ~calculatedRing.ring.valid
    /\ \E i \in DOMAIN resizedParticipations.twice :
          resizedParticipations.twice[i].fillAmountS > 0

\* the orders and spendables as adjustOrderStates leaves them for the ring at
\* pos, once calculateFillAmountAndFee found it valid
adjustedOrderStates ==
    LET calculated == calculatedRing
    IN adjustOrderStates(0, calculated.ring.participations, orders, calculated.sp)

\* whether the ring at pos holds an order that pays a fee in the token it sells
paysFeeInTokenS ==
    \E i \in DOMAIN calculatedRing.ring.participations :
        LET p == calculatedRing.ring.participations[i]
        IN orders[p.order].feeToken = orders[p.order].tokenS /\ p.feeAmount > 0

\* whether the ring at pos holds an order an earlier ring of the batch filled
filledByEarlierRing ==
    \E i \in DOMAIN calculatedRing.ring.participations :
        \E k \in 1..(pos - 1) :
            /\ rings[k].valid
            /\ \E j \in DOMAIN rings[k].participations :
                  /\ rings[k].participations[j].order
                       = calculatedRing.ring.participations[i].order
                  /\ rings[k].participations[j].fillAmountS > 0

maxFillParticipations ==
    setMaxFillAmountsAll(0, checkedRing.participations, orders, spendables,
                         chain.balance).ps

\* whether setMaxFillAmounts found the order of the participation short of
\* tokenS for its fill and its fee, which it pays in tokenS
shortOfTokenS(p) ==
    LET o == orders[p.order]
        fillAmountS == Min(p.ringSpendableS, remainingS(o))
    IN /\ ~o.P2P
       /\ o.feeToken = o.tokenS
       /\ feeOfFill(o, fillAmountS) > 0
       /\ fillAmountS + feeOfFill(o, fillAmountS) > p.ringSpendableS

\* C26 - Fee from tokenS shortage: for an order that is not P2P, whose feeToken
\* is its tokenS and whose fillAmountS plus proportional fee exceeds
\* ringSpendableS, setMaxFillAmounts sets fillAmountS to
\* ringSpendableS * amountS / (amountS + feeAmount) and the fee to
\* ringSpendableS * feeAmount / (amountS + feeAmount), both truncated; their
\* sum never exceeds ringSpendableS; amountS 1000, feeAmount 100 and a
\* spendable of 600 give 545 and 54.
ShortageDividesSpendable ==
    /\ dividedSpendable([amountS |-> 1000, feeAmount |-> 100], 600)
         = [fillAmountS |-> 545, feeAmount |-> 54]
    /\ calculatesFills =>
          LET ps == maxFillParticipations
          IN
          \A i \in DOMAIN ps :
              LET p == ps[i]
                  o == orders[p.order]
                  divided == dividedSpendable(o, p.ringSpendableS)
                  total == o.amountS + o.feeAmount
              IN shortOfTokenS(p) =>
                    /\ p.fillAmountS = divided.fillAmountS
                    /\ divided.fillAmountS * total <= p.ringSpendableS * o.amountS
                    /\ (divided.fillAmountS + 1) * total > p.ringSpendableS * o.amountS
                    /\ divided.feeAmount * total <= p.ringSpendableS * o.feeAmount
                    /\ (divided.feeAmount + 1) * total > p.ringSpendableS * o.feeAmount
                    /\ divided.fillAmountS + divided.feeAmount <= p.ringSpendableS

\* a ring with an order short of tokenS whose fill and fee are both cut
ShortageDividesSpendableWitness ==
    /\ calculatesFills
    /\ \E i \in DOMAIN maxFillParticipations :
          LET p == maxFillParticipations[i]
          IN /\ shortOfTokenS(p)
             /\ p.fillAmountS > 0
             /\ p.fillAmountS < Min(p.ringSpendableS, remainingS(orders[p.order]))

\* whether the order is a P2P order without a wallet
isP2PWithoutWallet(o) == o.P2P /\ o.walletAddr = NoAddress

\* whether payFeesAndBurn for the amount of the token, called for the
\* participation of the ring at pos, rebates all of it and credits no account
rebatesAll(p, token, amount) ==
    LET paid == payFeesAndBurn(rings[pos], orders, p, token, amount,
                               walletPercentageOf(orders[p.order]), chain.burnRates)
    IN /\ paid.ok
       /\ paid.rebate = amount
       /\ \A account \in Accounts : \A t \in Tokens :
             getBalance(paid.feeBalances, account, t, zeroAddress)
               = getBalance(rings[pos].feeBalances, account, t, zeroAddress)

\* C27 - For a P2P order without a wallet payFeesAndBurn rebates the whole fee
\* amount and credits nothing to the wallet, the feeRecipient of the miner or
\* the burn address: the call leaves the balance of every account in the
\* ring's feeBalances as it was, and after payFees rebateS is feeAmountS and
\* rebateB is feeAmountB.
P2PWithoutWalletIsRebated ==
    /\ pc = "payments" /\ pos <= Len(rings) /\ rings[pos].valid =>
          \A i \in DOMAIN rings[pos].participations :
              LET p == rings[pos].participations[i]
                  o == orders[p.order]
              IN isP2PWithoutWallet(o) =>
                    /\ rebatesAll(p, o.tokenS, p.feeAmountS)
                    /\ rebatesAll(p, o.tokenB, p.feeAmountB)
    /\ \A k \in DOMAIN rings :
          rings[k].transferItems # << >> =>
             \A i \in DOMAIN rings[k].participations :
                 LET p == rings[k].participations[i]
                 IN isP2PWithoutWallet(orders[p.order]) =>
                       /\ p.rebateS = p.feeAmountS
                       /\ p.rebateB = p.feeAmountB

\* a settled ring whose P2P order without a wallet was rebated a fee in tokenS
\* at a burn rate that is not zero
P2PWithoutWalletIsRebatedWitness ==
    \E k \in DOMAIN rings :
        /\ rings[k].settled
        /\ \E i \in DOMAIN rings[k].participations :
              LET p == rings[k].participations[i]
              IN /\ isP2PWithoutWallet(orders[p.order])
                 /\ p.feeAmountS > 0
                 /\ p.rebateS = p.feeAmountS
                 /\ chain.burnRates[orders[p.order].tokenS] > 0

\* fillAmountS + splitS of the participations of the order in the ring, from
\* index i on
RECURSIVE filledByRing(_, _, _)
filledByRing(i, ps, n) ==
    IF i >= Len(ps) THEN 0
    ELSE (IF ps[i + 1].order = n THEN ps[i + 1].fillAmountS + ps[i + 1].splitS ELSE 0)
         + filledByRing(i + 1, ps, n)

\* what the valid rings from ring k on fill of the order
RECURSIVE filledByValidRings(_, _)
filledByValidRings(k, n) ==
    IF k > Len(rings) THEN 0
    ELSE (IF rings[k].valid THEN filledByRing(0, rings[k].participations, n) ELSE 0)
         + filledByValidRings(k + 1, n)

\* whether the ring filled something and is not valid any more
filledAndInvalid(k) ==
    /\ ~rings[k].valid
    /\ \E i \in DOMAIN rings[k].participations :
          rings[k].participations[i].fillAmountS > 0

\* C28 - Filled-amount accounting across rings: between the passes of
\* checkRings and after it returned, the filledAmountS of every order is the
\* filled amount read from the chain plus the sum of fillAmountS + splitS over
\* the rings that hold the order and are still valid; so the contribution of
\* an invalidated ring is removed exactly once, a ring that was never adjusted
\* is never reverted, and the assertion of revertOrderStats holds.
FilledAmountAccounting ==
    /\ failed # "p.order.filledAmountS >= 0"
    /\ pc = "checkRings" \/ checkRingsReturned =>
          \A n \in DOMAIN orders :
              orders[n].filledAmountS
                = filledOrCancelled(chain, n) + filledByValidRings(1, n)

\* checkRings returned after more than one pass, with a ring it reverted, a
\* ring calculateFillAmountAndFee found invalid, or an order that a ring that
\* is still valid fills
FilledAmountAccountingWitness ==
    /\ checkRingsReturned
    /\ iterations >= 2
    /\ \E k \in DOMAIN rings : filledAndInvalid(k)
    /\ \E n \in DOMAIN orders : filledByValidRings(1, n) > 0

\* the ring at pos as payFees leaves it
paidRing == payFees(0, rings[pos], orders, chain.burnRates).ring

\* whether the rebates payFees gave the participation are those
\* validateSettlement expects
rebatesAsExpected(p) ==
    LET expected == expectedBurnAndRebate(p, orders[p.order], chain.burnRates)
    IN /\ p.rebateFee = expected.rebateFee
       /\ p.rebateS = expected.rebateS
       /\ p.rebateB = expected.rebateB

\* whether doPayments is about to run on the ring at pos
paysRing == pc = "payments" /\ pos <= Len(rings) /\ rings[pos].valid

\* C29 - The rebates payFeesAndBurn returns are the rebates validateSettlement
\* computes anew with calculateBurnAndRebate, for every participation of a
\* ring that passed calculateFillAmountAndFee, orders without a wallet that
\* are not P2P and waiveFeePercentage of either sign included, so that the
\* "rebate should match expected value" assertions never fail.
RebatesMatchExpected ==
    paysRing =>
        \A i \in DOMAIN paidRing.participations :
            rebatesAsExpected(paidRing.participations[i])

\* the transfers of the ring at pos, once payFees set its rebates
paidTransfers ==
    transferTokens(0, << >>, paidRing.participations, orders, chain.canSend)

\* whether the transfers leave the owner of the participation of the ring at
\* pos the balance of tokenS that validateSettlement expects
ownerBalanceSAsExpected(p) ==
    LET o == orders[p.order]
    IN getBalance(applyTransfers(emptyBook, paidTransfers.items),
                  o.owner, o.tokenS, o.trancheS)
         = getBalance(expectedBalances(0, emptyBook, paidRing, orders),
                      o.owner, o.tokenS, o.trancheS)

\* C30 - For every ring that passed calculateFillAmountAndFee, the amount of
\* tokenS the transfers of the ring take from an owner is the one
\* validateSettlement expects (fillAmountS - rebateS + splitS, and
\* feeAmount - rebateFee when the fee token is the same balance), so that the
\* assertions on the owner balances never fail, also for an ERC1400 tokenS
\* with splitS > 0 and for transfers of an owner to themselves.
OwnerBalanceSMatchesExpected ==
    paysRing /\ paidTransfers.ok =>
        \A i \in DOMAIN paidRing.participations :
            ownerBalanceSAsExpected(paidRing.participations[i])

=============================================================================
